---------------------------- MODULE Spec2Model ----------------------------
(***************************************************************************)
(* Model of the keyword crosswalk matcher of src/get_data.py:              *)
(* build_crosswalk (the inverted keyword index built from the SIC->NAICS   *)
(* taxonomy table) and match_naics (scoring and ranking of a cleaned       *)
(* title against that index).                                              *)
(*                                                                         *)
(* Representation.  A Python str is a sequence of one-character strings,   *)
(* so that tokenising, length, slicing and lexicographic order are         *)
(* computed and not assumed.  A nullable field is None_ (the empty tuple)  *)
(* or Some(x) (a 1-tuple).  A float quotient of two small counts is the    *)
(* fraction [num, den] in lowest terms.                                    *)
(***************************************************************************)
EXTENDS Integers, Sequences, FiniteSets, TLC

(***************************************************************************)
(* Bounds of the model.                                                    *)
(***************************************************************************)
MaxRows == 2          \* rows of the taxonomy table
MaxTitleWords == 2    \* vocabulary words of a title given to match_naics
MaxFiller == 11       \* one-letter filler tokens appended to a title

(***************************************************************************)
(* Characters and strings.                                                 *)
(***************************************************************************)
LowerChars ==
  <<"a","b","c","d","e","f","g","h","i","j","k","l","m","n","o","p","q","r","s","t","u","v","w","x","y","z">>

UpperChars ==
  <<"A","B","C","D","E","F","G","H","I","J","K","L","M","N","O","P","Q","R","S","T","U","V","W","X","Y","Z">>

DigitChars ==
  <<"0","1","2","3","4","5","6","7","8","9">>

Whitespace == {" ", "\t", "\n", "\r"}

Range(s) == { s[i] : i \in DOMAIN s }

IsLower(c) == c \in Range(LowerChars)

\* Code point order of the characters the model uses: digits < upper < lower,
\* every other character (space, punctuation) below the digits.
Ord(c) ==
  IF \E i \in DOMAIN LowerChars : LowerChars[i] = c
    THEN 96 + (CHOOSE i \in DOMAIN LowerChars : LowerChars[i] = c)
  ELSE IF \E i \in DOMAIN UpperChars : UpperChars[i] = c
    THEN 64 + (CHOOSE i \in DOMAIN UpperChars : UpperChars[i] = c)
  ELSE IF \E i \in DOMAIN DigitChars : DigitChars[i] = c
    THEN 47 + (CHOOSE i \in DOMAIN DigitChars : DigitChars[i] = c)
  ELSE 32

\* str < str of Python: lexicographic by code point, a proper prefix first.
RECURSIVE StrLess(_, _)
StrLess(a, b) ==
  IF b = <<>> THEN FALSE
  ELSE IF a = <<>> THEN TRUE
  ELSE IF Head(a) = Head(b) THEN StrLess(Tail(a), Tail(b))
  ELSE Ord(Head(a)) < Ord(Head(b))

\* str.lower()
ToLowerChar(c) ==
  IF \E i \in DOMAIN UpperChars : UpperChars[i] = c
    THEN LowerChars[CHOOSE i \in DOMAIN UpperChars : UpperChars[i] = c]
    ELSE c

lower(s) == [i \in DOMAIN s |-> ToLowerChar(s[i])]

\* str.strip()
RECURSIVE LStrip(_)
LStrip(s) ==
  IF s # <<>> /\ Head(s) \in Whitespace THEN LStrip(Tail(s)) ELSE s

RECURSIVE RStrip(_)
RStrip(s) ==
  IF s # <<>> /\ s[Len(s)] \in Whitespace
    THEN RStrip(SubSeq(s, 1, Len(s) - 1))
    ELSE s

strip(s) == RStrip(LStrip(s))

\* str(int(n)) for a non-negative number
RECURSIVE IntToStr(_)
IntToStr(n) ==
  IF n < 10 THEN <<DigitChars[n + 1]>>
  ELSE Append(IntToStr(n \div 10), DigitChars[(n % 10) + 1])

\* sep.join(parts)
RECURSIVE join(_, _)
join(sep, parts) ==
  IF parts = <<>> THEN <<>>
  ELSE IF Len(parts) = 1 THEN parts[1]
  ELSE parts[1] \o sep \o join(sep, Tail(parts))

\* re.findall(r"[a-z]+", s): the maximal runs of lower-case letters, in order
RECURSIVE AlphaRuns(_, _)
AlphaRuns(s, cur) ==
  IF s = <<>> THEN (IF cur = <<>> THEN <<>> ELSE <<cur>>)
  ELSE IF IsLower(Head(s)) THEN AlphaRuns(Tail(s), Append(cur, Head(s)))
  ELSE (IF cur = <<>> THEN <<>> ELSE <<cur>>) \o AlphaRuns(Tail(s), <<>>)

findall_az(s) == AlphaRuns(s, <<>>)

\* sorted(list_of_str)[:...]: insertion sort, ascending
RECURSIVE InsertStr(_, _)
InsertStr(x, s) ==
  IF s = <<>> THEN <<x>>
  ELSE IF StrLess(x, Head(s)) THEN <<x>> \o s
  ELSE <<Head(s)>> \o InsertStr(x, Tail(s))

RECURSIVE sorted_str(_)
sorted_str(s) ==
  IF s = <<>> THEN <<>> ELSE InsertStr(Head(s), sorted_str(Tail(s)))

\* Nullable values
None_ == <<>>
Some(x) == <<x>>

(***************************************************************************)
(* Module constants of get_data.py.                                        *)
(***************************************************************************)
LARGE_INDUSTRIES ==
  (<<"3","1">> :> <<"Manufacturing", TRUE>>) @@
  (<<"4","2">> :> <<"Wholesale Trade", TRUE>>) @@
  (<<"4","4">> :> <<"Retail Trade", TRUE>>) @@
  (<<"5","1">> :> <<"Information", TRUE>>) @@
  (<<"5","2">> :> <<"Finance & Insurance", TRUE>>) @@
  (<<"5","4">> :> <<"Professional Services", TRUE>>) @@
  (<<"7","2">> :> <<"Accommodation & Food", TRUE>>)

STOPWORDS ==
  {
    <<"p","r","o","d","u","c","t","s">>, <<"g","o","o","d","s">>,
    <<"s","e","r","v","i","c","e","s">>, <<"m","a","t","e","r","i","a","l","s">>,
    <<"a","r","t","i","c","l","e","s">>, <<"i","t","e","m","s">>,
    <<"c","e","r","t","a","i","n">>, <<"o","t","h","e","r">>,
    <<"r","e","l","a","t","e","d">>, <<"v","a","r","i","o","u","s">>,
    <<"a","n","d">>, <<"t","h","e">>,
    <<"a">>, <<"o","r">>,
    <<"n","o","t">>, <<"f","r","o","m">>,
    <<"f","o","r">>, <<"w","i","t","h">>,
    <<"a","s">>, <<"s","u","c","h">>,
    <<"i","n","c","l","u","d","i","n","g">>, <<"w","h","e","t","h","e","r">>,
    <<"a","p","p","a","r","a","t","u","s">>, <<"e","q","u","i","p","m","e","n","t">>,
    <<"m","a","c","h","i","n","e","r","y">>, <<"d","e","v","i","c","e">>,
    <<"s","y","s","t","e","m">>, <<"t","o","o","l">>,
    <<"s","u","p","p","l","e","m","e","n","t">>, <<"m","a","n","u","f","a","c","t","u","r","i","n","g">>,
    <<"p","r","o","d","u","c","t","i","o","n">>, <<"u","s","e">>,
    <<"u","s","e","d">>, <<"b","a","s","e","d">>,
    <<"m","a","d","e">>, <<"m","a","n","u","f","a","c","t","u","r","e","d">>,
    <<"c","o","m","p","o","n","e","n","t">>, <<"c","o","m","p","o","n","e","n","t","s">>,
    <<"p","a","r","t">>, <<"p","a","r","t","s">>,
    <<"o","f">>, <<"i","n">>,
    <<"o","n">>, <<"b","y">>,
    <<"a","t">>, <<"t","o">>
  }

(***************************************************************************)
(* build_crosswalk.  A spreadsheet cell is [t, n, s]: missing ("nan"), a   *)
(* number n ("num") or a string s ("str").  The index is a function from   *)
(* keyword to the list of its entries; a defaultdict lookup of an absent   *)
(* key is the empty list.                                                  *)
(***************************************************************************)
NaNCell == [t |-> "nan", n |-> 0, s |-> <<>>]
NumCell(v) == [t |-> "num", n |-> v, s |-> <<>>]
StrCell(v) == [t |-> "str", n |-> 0, s |-> v]

isna(cell) == cell.t = "nan"

\* str(x) of a cell that is not missing
CellStr(cell) == IF cell.t = "num" THEN IntToStr(cell.n) ELSE cell.s

EmptyIndex == [w \in {} |-> <<>>]

IndexGet(cw, w) == IF w \in DOMAIN cw THEN cw[w] ELSE <<>>

IndexPut(cw, w, v) ==
  [k \in (DOMAIN cw) \cup {w} |-> IF k = w THEN v ELSE cw[k]]

\* line 131: the test a word of a taxonomy title passes to be indexed
\* variant: >= 3 in place of > 3
IsSignificant_LenGe3(word) == Len(word) >= 3 /\ word \notin STOPWORDS

IsSignificant(word) == Len(word) > 3 /\ word \notin STOPWORDS

\* lines 130-139: the inner loop over the words of one row
RECURSIVE IndexWords(_, _, _)
IndexWords(cw, words, item) ==
  IF words = <<>> THEN cw
  ELSE IF IsSignificant(Head(words))
    THEN IndexWords(IndexPut(cw, Head(words), Append(IndexGet(cw, Head(words)), item)),
                    Tail(words), item)
    ELSE IndexWords(cw, Tail(words), item)

\* lines 109-139: one iteration of the loop over the rows
IndexRow(cw, row) ==
  IF isna(row.code_val) \/ isna(row.title_val) THEN cw
  ELSE
    LET code == strip(CellStr(row.code_val))
        title == lower(strip(CellStr(row.title_val)))
    IN IF code = <<>> \/ title = <<>> THEN cw
       ELSE
         LET sector == IF Len(code) >= 2 THEN Some(SubSeq(code, 1, 2)) ELSE None_
             is_large == IF sector # None_
                           THEN sector[1] \in DOMAIN LARGE_INDUSTRIES
                           ELSE FALSE
             sector_name == IF sector # None_ /\ sector[1] \in DOMAIN LARGE_INDUSTRIES
                              THEN Some(LARGE_INDUSTRIES[sector[1]][1])
                              ELSE None_
             item == [code |-> code, title |-> title, sector |-> sector,
                      sector_name |-> sector_name, is_large |-> is_large]
         IN IndexWords(cw, findall_az(title), item)

RECURSIVE IndexRows(_, _)
IndexRows(cw, rows) ==
  IF rows = <<>> THEN cw ELSE IndexRows(IndexRow(cw, Head(rows)), Tail(rows))

\* lines 143-147: keep the first item of each code
\* variant: a later item of the same code replaces the one kept
RECURSIVE UniqueCodes_KeepLast(_, _)
UniqueCodes_KeepLast(items, kept) ==
  IF items = <<>> THEN kept
  ELSE IF \E i \in DOMAIN kept : kept[i].code = Head(items).code
    THEN UniqueCodes_KeepLast(Tail(items),
           [i \in DOMAIN kept |->
              IF kept[i].code = Head(items).code THEN Head(items) ELSE kept[i]])
    ELSE UniqueCodes_KeepLast(Tail(items), Append(kept, Head(items)))

RECURSIVE UniqueCodes(_, _)
UniqueCodes(items, kept) ==
  IF items = <<>> THEN kept
  ELSE IF \E i \in DOMAIN kept : kept[i].code = Head(items).code
    THEN UniqueCodes(Tail(items), kept)
    ELSE UniqueCodes(Tail(items), Append(kept, Head(items)))

\* variant: the duplicates of a code are left in the buckets
build_crosswalk_KeepDuplicates(df) == IndexRows(EmptyIndex, df)

\* lines 88-149
build_crosswalk(df) ==
  LET crosswalk == IndexRows(EmptyIndex, df)
  IN [word \in DOMAIN crosswalk |-> UniqueCodes(crosswalk[word], <<>>)]

(***************************************************************************)
(* Inputs: the taxonomy tables and the cleaned titles the model draws.     *)
(***************************************************************************)
W_steel == <<"s","t","e","e","l">>
W_wire == <<"w","i","r","e">>
W_rope == <<"r","o","p","e">>
W_rod == <<"r","o","d">>

CodeVals == { NumCell(3111), NumCell(3112), NumCell(311211), NumCell(3312) }

TitleVals ==
  { StrCell(<<"S","t","e","e","l"," ","W","i","r","e">>),
    StrCell(<<"T","h","e"," ","w","i","r","e"," ","r","o","p","e","-","r","o","d"," ","p","a","r","t","s">>) }

TaxonomyRows ==
  [code_val : CodeVals, title_val : TitleVals]
    \cup { [code_val |-> NaNCell, title_val |-> StrCell(W_steel)],
           [code_val |-> NumCell(3111), title_val |-> NaNCell],
           [code_val |-> StrCell(<<" ","7"," ">>), title_val |-> StrCell(W_wire)],
           [code_val |-> NumCell(3112), title_val |-> StrCell(<<" ">>)] }

CodeSeq == <<NumCell(3312), NumCell(3111), NumCell(3112), NumCell(311211)>>

\* every table of at most MaxRows rows, and every table that lists each
\* code once
Tables ==
  UNION { [1..n -> TaxonomyRows] : n \in 0..MaxRows }
    \cup { [i \in DOMAIN CodeSeq |-> [code_val |-> CodeSeq[i], title_val |-> tv[i]]] :
             tv \in [DOMAIN CodeSeq -> TitleVals] }
    \cup { <<[code_val |-> NumCell(331221),
              title_val |-> StrCell(<<"S","t","e","e","l"," ","W","i","r","e">>)]>> }

(***************************************************************************)
(* match_naics.  The dict `matches` is the sequence of its entries in      *)
(* insertion order, each entry carrying its key as the field code.         *)
(***************************************************************************)
UnmatchedCap == 10    \* sorted(unmatched_keywords)[:10]
TopMatches == 3       \* sorted_matches[:3]

RECURSIVE Gcd(_, _)
Gcd(a, b) == IF b = 0 THEN a ELSE Gcd(b, a % b)

\* the float a / b of two counts, b > 0, as a fraction in lowest terms
Quotient(a, b) == [num |-> a \div Gcd(a, b), den |-> b \div Gcd(a, b)]

Zero == [num |-> 0, den |-> 1]
One == [num |-> 1, den |-> 1]

FracLeq(x, y) == x.num * y.den <= y.num * x.den

\* min(x, y)
fmin(x, y) == IF FracLeq(x, y) THEN x ELSE y

\* line 377: tokens = set(re.findall(r"[a-z]+", title))
\* variant: the tokens filtered as build_crosswalk filters its keywords
title_tokens_Significant(title) ==
  { w \in Range(findall_az(title)) : IsSignificant(w) }

title_tokens(title) == Range(findall_az(title))

\* lines 388-394: one item of a bucket is added to matches
AddItem(matches, item) ==
  IF \E i \in DOMAIN matches : matches[i].code = item.code
    THEN LET i == CHOOSE i \in DOMAIN matches : matches[i].code = item.code
         IN [matches EXCEPT ![i] =
               [code |-> item.code,
                score |-> matches[i].score + 1,
                keyword_count |-> matches[i].keyword_count + 1,
                title |-> item.title,
                sector |-> item.sector,
                sector_name |-> item.sector_name,
                is_large |-> item.is_large]]
    ELSE Append(matches,
               [code |-> item.code,
                score |-> 1,
                keyword_count |-> 1,
                title |-> item.title,
                sector |-> item.sector,
                sector_name |-> item.sector_name,
                is_large |-> item.is_large])

\* lines 387-394: the loop over NAICS_CROSSWALK[word]
RECURSIVE AddItems(_, _)
AddItems(matches, items) ==
  IF items = <<>> THEN matches
  ELSE AddItems(AddItem(matches, Head(items)), Tail(items))

\* variant: the index is a defaultdict, and looking a word up makes its
\* bucket
contains_Create(index, word) ==
  [index |-> IF word \in DOMAIN index THEN index ELSE IndexPut(index, word, <<>>),
   found |-> word \in DOMAIN index]

\* line 385: word in NAICS_CROSSWALK, a plain dict (line 149); the index
\* after the test and the answer
contains(index, word) == [index |-> index, found |-> word \in DOMAIN index]

\* lines 384-396: the loop over tokens, visited in the sequence `order`
RECURSIVE ScanTokens(_, _, _)
ScanTokens(index, order, st) ==
  IF order = <<>> THEN [st EXCEPT !.index = index]
  ELSE LET word == Head(order)
           look == contains(index, word)
       IN IF look.found
            THEN ScanTokens(look.index, Tail(order),
                   [st EXCEPT !.matched_keywords = Append(@, word),
                              !.matches = AddItems(@, look.index[word])])
            ELSE ScanTokens(look.index, Tail(order),
                   [st EXCEPT !.unmatched_keywords = Append(@, word)])

\* line 415: key=lambda x: (-x[1]["is_large"], -x[1]["score"], -len(x[0]))
sort_key(m) == << -(IF m.is_large THEN 1 ELSE 0), -m.score, -Len(m.code) >>

\* tuple < tuple
KeyLess(a, b) ==
  \/ a[1] < b[1]
  \/ a[1] = b[1] /\ a[2] < b[2]
  \/ a[1] = b[1] /\ a[2] = b[2] /\ a[3] < b[3]

\* lines 413-417: sorted(..., key=..., reverse=True) is a stable sort into
\* descending key order: x goes before the first entry with a smaller key.
RECURSIVE InsertDescending(_, _)
InsertDescending(x, s) ==
  IF s = <<>> THEN <<x>>
  ELSE IF KeyLess(sort_key(Head(s)), sort_key(x)) THEN <<x>> \o s
  ELSE <<Head(s)>> \o InsertDescending(x, Tail(s))

RECURSIVE SortDescending(_, _)
SortDescending(items, acc) ==
  IF items = <<>> THEN acc
  ELSE SortDescending(Tail(items), InsertDescending(Head(items), acc))

sort_matches(matches) == SortDescending(matches, <<>>)

\* lines 408 and 433: ",".join(sorted(unmatched_keywords)[:10])
\* variant: sorted(unmatched_keywords[:10])
top_unmatched_CutFirst(unmatched_keywords) ==
  LET cut == SubSeq(unmatched_keywords, 1,
                    IF Len(unmatched_keywords) < UnmatchedCap
                      THEN Len(unmatched_keywords) ELSE UnmatchedCap)
  IN join(<<",">>, sorted_str(cut))

top_unmatched(unmatched_keywords) ==
  LET s == sorted_str(unmatched_keywords)
  IN join(<<",">>, SubSeq(s, 1, IF Len(s) < UnmatchedCap THEN Len(s) ELSE UnmatchedCap))

\* line 420: min(keyword_count / len(tokens) if tokens else 0, 1.0)
\* variant: len(tokens) / keyword_count, unclamped
confidence_Inverted(keyword_count, ntokens) ==
  IF keyword_count > 0 THEN Quotient(ntokens, keyword_count) ELSE Zero

confidence(keyword_count, ntokens) ==
  fmin(IF ntokens > 0 THEN Quotient(keyword_count, ntokens) ELSE Zero, One)

\* lines 430-431: the top 3 of the ranking
\* variant: sorted_matches[1:4]
all_matches_Skip(ranking) ==
  [i \in 1..(IF Len(ranking) - 1 < TopMatches THEN Len(ranking) - 1 ELSE TopMatches) |->
     [naics |-> ranking[i + 1].code, title |-> ranking[i + 1].title,
      is_large |-> ranking[i + 1].is_large]]

all_matches(ranking) ==
  [i \in 1..(IF Len(ranking) < TopMatches THEN Len(ranking) ELSE TopMatches) |->
     [naics |-> ranking[i].code, title |-> ranking[i].title,
      is_large |-> ranking[i].is_large]]

\* lines 399-410: the result when no code was scored
\* variant: unmatched_keywords[:10] without sorted()
NoMatchResult_Unsorted(tokens, unmatched_keywords) ==
  [naics |-> None_, industry |-> None_, sector |-> None_, sector_name |-> None_,
   match_confidence |-> Zero, is_large_industry |-> FALSE,
   all_matches |-> <<>>, matched_keywords |-> <<>>,
   unmatched_keywords |->
     join(<<",">>, SubSeq(unmatched_keywords, 1,
                          IF Len(unmatched_keywords) < UnmatchedCap
                            THEN Len(unmatched_keywords) ELSE UnmatchedCap)),
   total_tokens |-> Cardinality(tokens)]

NoMatchResult(tokens, unmatched_keywords) ==
  [naics |-> None_, industry |-> None_, sector |-> None_, sector_name |-> None_,
   match_confidence |-> Zero, is_large_industry |-> FALSE,
   all_matches |-> <<>>, matched_keywords |-> <<>>,
   unmatched_keywords |-> top_unmatched(unmatched_keywords),
   total_tokens |-> Cardinality(tokens)]

\* lines 377-435.  `order` is the sequence in which `for word in tokens`
\* visits the set.  Returns the result and the local sorted_matches.
match_naics(index, title, order) ==
  LET tokens == title_tokens(title)
      st == ScanTokens(index, order,
              [matched_keywords |-> <<>>, unmatched_keywords |-> <<>>, matches |-> <<>>,
               index |-> index])
  IN IF st.matches = <<>>
       THEN [sorted_matches |-> <<>>,
             index |-> st.index,
             result |-> NoMatchResult(tokens, st.unmatched_keywords)]
       ELSE
         LET ranking == sort_matches(st.matches)
             best == ranking[1]
         IN [sorted_matches |-> ranking,
             index |-> st.index,
             result |->
               [naics |-> Some(best.code),
                industry |-> Some(best.title),
                sector |-> best.sector,
                sector_name |-> best.sector_name,
                match_confidence |-> confidence(best.keyword_count, Cardinality(tokens)),
                is_large_industry |-> best.is_large,
                all_matches |-> all_matches(ranking),
                matched_keywords |-> join(<<",">>, sorted_str(st.matched_keywords)),
                unmatched_keywords |-> top_unmatched(st.unmatched_keywords),
                total_tokens |-> Cardinality(tokens)]]

(***************************************************************************)
(* The order in which a set of str is iterated is fixed by the hashes of   *)
(* its members (randomised per process): any order can occur.  An          *)
(* unindexed token only appends itself to unmatched_keywords, which is     *)
(* read through sorted() alone, so the orders drawn are every order of     *)
(* the indexed tokens, followed by the unindexed tokens (in descending     *)
(* order).                                                                 *)
(***************************************************************************)
Perms(S) ==
  { f \in [1..Cardinality(S) -> S] : \A i, j \in 1..Cardinality(S) : f[i] = f[j] => i = j }

RECURSIVE Reverse(_)
Reverse(s) == IF s = <<>> THEN <<>> ELSE Append(Reverse(Tail(s)), Head(s))

RECURSIVE SetToSeq(_)
SetToSeq(S) ==
  IF S = {} THEN <<>>
  ELSE LET x == CHOOSE x \in S : TRUE IN <<x>> \o SetToSeq(S \ {x})

SetToSortedSeq(S) == sorted_str(SetToSeq(S))

IterationOrders(index, tokens) ==
  { m \o Reverse(SetToSortedSeq(tokens \ DOMAIN index)) :
      m \in Perms(tokens \cap DOMAIN index) }

Vocabulary == { W_steel, W_wire, W_rope, W_rod }

TitleWordSeqs == UNION { [1..n -> Vocabulary] : n \in 0..MaxTitleWords }

Filler(k) == [i \in 1..k |-> <<LowerChars[i]>>]

Titles ==
  { join(<<" ">>, ws) : ws \in TitleWordSeqs }
    \cup { join(<<" ">>, ws \o Filler(MaxFiller)) : ws \in [1..1 -> Vocabulary] }

EmptyResult == NoMatchResult({}, <<>>)

(***************************************************************************)
(* clean_title.                                                            *)
(***************************************************************************)
S_certain == <<"c","e","r","t","a","i","n">>
S_from == <<"f","r","o","m">>

StartsWith(s, prefix) ==
  Len(s) >= Len(prefix) /\ SubSeq(s, 1, Len(prefix)) = prefix

\* line 364: re.sub(r"^certain\s+", "", t)
sub_certain(t) ==
  IF StartsWith(t, S_certain) /\ Len(t) > Len(S_certain)
       /\ t[Len(S_certain) + 1] \in Whitespace
    THEN LStrip(SubSeq(t, Len(S_certain) + 1, Len(t)))
    ELSE t

\* r"\s+from.*$" matches at i: white space from i on, then "from", then
\* no line break up to the end of t (or up to a last "\n")
FromMatchesAt(t, i) ==
  /\ t[i] \in Whitespace
  /\ LET rest == LStrip(SubSeq(t, i, Len(t)))
     IN /\ StartsWith(rest, S_from)
        /\ \A k \in 1..(Len(rest) - 1) : rest[k] # "\n"

\* line 365: re.sub(r"\s+from.*$", "", t)
sub_from(t) ==
  IF \E i \in DOMAIN t : FromMatchesAt(t, i)
    THEN LET i == CHOOSE i \in DOMAIN t :
                    FromMatchesAt(t, i) /\ \A j \in 1..(i - 1) : ~FromMatchesAt(t, j)
         IN SubSeq(t, 1, i - 1) \o (IF t[Len(t)] = "\n" THEN <<"\n">> ELSE <<>>)
    ELSE t

\* line 366: re.sub(r"[^a-z0-9\s]", "", t)
IsCleanChar(c) == IsLower(c) \/ c \in Range(DigitChars) \/ c \in Whitespace

sub_nonalnum(t) == SelectSeq(t, IsCleanChar)

\* variant: the clause after "from" is kept
clean_title_KeepFrom(title) == strip(sub_nonalnum(sub_certain(lower(title))))

\* lines 362-367
clean_title(title) == strip(sub_nonalnum(sub_from(sub_certain(lower(title)))))

T_CertainSteelWireRodFromChina ==
  <<"C","e","r","t","a","i","n"," ","S","t","e","e","l"," ","W","i","r","e"," ",
    "R","o","d"," ","F","r","o","m"," ","C","h","i","n","a">>

T_WireRopeSteelFromItaly ==
  <<"W","i","r","e"," ","R","o","p","e"," ","(","S","t","e","e","l",")",",",
    " "," ","f","r","o","m"," ","I","t","a","l","y",".">>

\* the publication titles scraped: the titles above and two raw ones
PubTitles == Titles \cup { T_CertainSteelWireRodFromChina, T_WireRopeSteelFromItaly }

(***************************************************************************)
(* report_to_docling.py: count_tokens, chunk_text, get_overlap_text.       *)
(***************************************************************************)
CharsPerToken == 4

\* line 214, the estimate of the except branch: len(text) // 4
count_tokens(text) == Len(text) \div CharsPerToken

SentenceEnd == {".", "!", "?"}

\* line 362: text.split('\n\n')
RECURSIVE split_paragraphs(_)
split_paragraphs(text) ==
  IF \E i \in 1..(Len(text) - 1) : text[i] = "\n" /\ text[i + 1] = "\n"
    THEN LET i == CHOOSE i \in 1..(Len(text) - 1) :
                    /\ text[i] = "\n" /\ text[i + 1] = "\n"
                    /\ \A j \in 1..(i - 1) : ~(text[j] = "\n" /\ text[j + 1] = "\n")
         IN <<SubSeq(text, 1, i - 1)>>
              \o split_paragraphs(SubSeq(text, i + 2, Len(text)))
    ELSE <<text>>

\* r'(?<=[.!?])\s+' matches at i
SentenceBreakAt(s, i) == i > 1 /\ s[i] \in Whitespace /\ s[i - 1] \in SentenceEnd

\* line 378: re.split(r'(?<=[.!?])\s+', para)
RECURSIVE split_sentences(_)
split_sentences(para) ==
  IF \E i \in DOMAIN para : SentenceBreakAt(para, i)
    THEN LET i == CHOOSE i \in DOMAIN para :
                    /\ SentenceBreakAt(para, i)
                    /\ \A j \in 1..(i - 1) : ~SentenceBreakAt(para, j)
         IN <<SubSeq(para, 1, i - 1)>>
              \o split_sentences(LStrip(SubSeq(para, i, Len(para))))
    ELSE <<para>>

\* text[-n:]; text[-0:] is the whole text
LastChars(text, n) ==
  IF n = 0 \/ n >= Len(text) THEN text
  ELSE SubSeq(text, Len(text) - n + 1, Len(text))

\* r'[.!?]\s+' matches at i
BoundaryAt(s, i) == i < Len(s) /\ s[i] \in SentenceEnd /\ s[i + 1] \in Whitespace

\* variant: no text is carried over
get_overlap_text_None(text, overlap_tokens) == <<>>

\* lines 422-447
get_overlap_text(text, overlap_tokens) ==
  LET approx_chars == overlap_tokens * CharsPerToken
      overlap_text == LastChars(text, approx_chars)
  IN IF Len(text) <= approx_chars THEN text
     ELSE IF \E i \in DOMAIN overlap_text : BoundaryAt(overlap_text, i)
       THEN LET i == CHOOSE i \in DOMAIN overlap_text :
                       /\ BoundaryAt(overlap_text, i)
                       /\ \A j \in 1..(i - 1) : ~BoundaryAt(overlap_text, j)
            IN LStrip(SubSeq(overlap_text, i + 1, Len(overlap_text)))
       ELSE overlap_text

\* The loop state of chunk_text: chunks, current_chunk and current_tokens
\* are the locals of the code; seed and units record, for the chunk being
\* built, the overlap text it started with and the units added to it, and
\* seeds and chunk_units keep them for the chunks already saved.
ChunkStart ==
  [chunks |-> <<>>, current_chunk |-> <<>>, current_tokens |-> 0,
   seed |-> <<>>, units |-> <<>>, seeds |-> <<>>, chunk_units |-> <<>>]

\* lines 384 and 398 (and 408): chunks.append(current_chunk.strip())
SaveChunk(st) ==
  [st EXCEPT !.chunks = Append(@, strip(st.current_chunk)),
             !.seeds = Append(@, st.seed),
             !.chunk_units = Append(@, st.units)]

\* lines 382-389 and 396-403: save the chunk and start the next one
\* with the overlap
StartWithOverlap(st, sep, unit, overlap) ==
  LET overlap_text == get_overlap_text(st.current_chunk, overlap)
      saved == SaveChunk(st)
  IN [saved EXCEPT !.current_chunk = overlap_text \o sep \o unit,
                   !.current_tokens = count_tokens(overlap_text \o sep \o unit),
                   !.seed = overlap_text,
                   !.units = <<unit>>]

\* variant: the sentence that does not fit is left out of the next chunk
AddSentence_Drop(st, sent, max_tokens, overlap) ==
  IF st.current_tokens + count_tokens(sent) > max_tokens /\ st.current_chunk # <<>>
    THEN StartWithOverlap(st, <<" ">>, <<>>, overlap)
    ELSE [st EXCEPT !.current_chunk = @ \o <<" ">> \o sent,
                    !.current_tokens = @ + count_tokens(sent),
                    !.units = Append(@, sent)]

\* lines 379-392
AddSentence(st, sent, max_tokens, overlap) ==
  IF st.current_tokens + count_tokens(sent) > max_tokens /\ st.current_chunk # <<>>
    THEN StartWithOverlap(st, <<" ">>, sent, overlap)
    ELSE [st EXCEPT !.current_chunk = @ \o <<" ">> \o sent,
                    !.current_tokens = @ + count_tokens(sent),
                    !.units = Append(@, sent)]

RECURSIVE AddSentences(_, _, _, _)
AddSentences(st, sentences, max_tokens, overlap) ==
  IF sentences = <<>> THEN st
  ELSE AddSentences(AddSentence(st, Head(sentences), max_tokens, overlap),
                    Tail(sentences), max_tokens, overlap)

\* lines 393-406
AddParagraph(st, para, max_tokens, overlap) ==
  IF st.current_tokens + count_tokens(para) > max_tokens /\ st.current_chunk # <<>>
    THEN StartWithOverlap(st, <<"\n", "\n">>, para, overlap)
    ELSE [st EXCEPT !.current_chunk =
                      IF @ # <<>> THEN @ \o <<"\n", "\n">> \o para ELSE para,
                    !.current_tokens = @ + count_tokens(para),
                    !.units = Append(@, para)]

\* lines 368-406: the loop over the paragraphs
RECURSIVE AddParagraphs(_, _, _, _)
AddParagraphs(st, paragraphs, max_tokens, overlap) ==
  IF paragraphs = <<>> THEN st
  ELSE LET para == strip(Head(paragraphs))
           next == IF para = <<>> THEN st
                   ELSE IF count_tokens(para) > max_tokens
                     THEN AddSentences(st, split_sentences(para), max_tokens, overlap)
                     ELSE AddParagraph(st, para, max_tokens, overlap)
       IN AddParagraphs(next, Tail(paragraphs), max_tokens, overlap)

\* lines 340-419; the result keeps the record of seeds and units
chunk_text(text, max_tokens, overlap) ==
  LET st == AddParagraphs(ChunkStart, split_paragraphs(text), max_tokens, overlap)
  IN IF st.current_chunk # <<>> THEN SaveChunk(st) ELSE st

\* Inputs of chunk_text: texts of up to MaxUnits sentences, each followed
\* by a blank or by a paragraph break, and budgets of up to MaxTokens.
MaxUnits == 3
MaxTokens == 3

U_short == <<"A","a",".">>
U_one == <<"B","b","b","!">>
U_two == <<"C","c","c","c"," ","d","d","?">>
U_long == <<"E","e","e","e","e","e","e","e","e","e","e","e",".">>

ChunkUnits == { U_short, U_one, U_two, U_long }

Separators == { <<" ">>, <<"\n", "\n">> }

RECURSIVE BuildText(_, _)
BuildText(units, seps) ==
  IF units = <<>> THEN <<>>
  ELSE IF Len(units) = 1 THEN Head(units)
  ELSE Head(units) \o Head(seps) \o BuildText(Tail(units), Tail(seps))

T_blank == <<" ", " ", "\n", "\n", " ", "\n">>
T_padded == <<" ">> \o U_short \o <<"\n", "\n", "\n">> \o U_one \o <<" ", " ">> \o U_two \o <<" ">>

Texts ==
  { BuildText(us, seps) :
      us \in UNION { [1..n -> ChunkUnits] : n \in 0..MaxUnits },
      seps \in [1..(MaxUnits - 1) -> Separators] }
    \cup { T_blank, T_padded }

(***************************************************************************)
(* report_to_docling.py: should_skip_chunking and process_paper.           *)
(***************************************************************************)
SkipThreshold == 8000

\* variant: a document of exactly the threshold is skipped too
should_skip_chunking_AtMost(markdown_content, threshold_tokens) ==
  count_tokens(markdown_content) <= threshold_tokens

\* lines 755-771
should_skip_chunking(markdown_content, threshold_tokens) ==
  count_tokens(markdown_content) < threshold_tokens

S_ChunkOpen ==
  <<"[", "C", "h", "u", "n", "k", " ">>
S_ChunkClose ==
  <<"]", " ">>
S_CouldNotSummarize ==
  <<"E", "r", "r", "o", "r", ":", " ", "C", "o", "u", "l", "d", " ", "n",
    "o", "t", " ", "s", "u", "m", "m", "a", "r", "i", "z", "e", ".">>
S_CombinedHeader ==
  <<"#", " ", "D", "o", "c", "u", "m", "e", "n", "t", " ", "S", "u", "m",
    "m", "a", "r", "y", " ", "(", "f", "r", "o", "m", " ", "S", "e", "c",
    "t", "i", "o", "n", " ", "S", "u", "m", "m", "a", "r", "i", "e", "s",
    ")", "\n", "\n", "T", "h", "i", "s", " ", "i", "s", " ", "a", " ", "h",
    "i", "e", "r", "a", "r", "c", "h", "i", "c", "a", "l", " ", "s", "u",
    "m", "m", "a", "r", "y", " ", "o", "f", " ", "d", "o", "c", "u", "m",
    "e", "n", "t", " ", "s", "e", "c", "t", "i", "o", "n", "s", ":", "\n",
    "\n">>
S_Divider ==
  <<"-", "-", "-">>

\* ollama.chat either raises (None_) or answers with a content
ChatReplies == { None_, Some(<<"S">>), Some(<<" ">>), Some(<<" ", "S", "\n">>) }

\* lines 692-730: one call of the model per chunk, never raises
summarize_chunk(chunk, reply) ==
  IF reply = None_
    THEN S_ChunkOpen \o IntToStr(chunk.id) \o S_ChunkClose \o S_CouldNotSummarize
    ELSE S_ChunkOpen \o IntToStr(chunk.id) \o S_ChunkClose \o strip(reply[1])

\* lines 733-753
RECURSIVE combine_chunk_summaries_body(_)
combine_chunk_summaries_body(chunk_summaries) ==
  IF chunk_summaries = <<>> THEN <<>>
  ELSE Head(chunk_summaries) \o <<"\n", "\n">> \o S_Divider \o <<"\n", "\n">>
         \o combine_chunk_summaries_body(Tail(chunk_summaries))

combine_chunk_summaries(chunk_summaries) ==
  S_CombinedHeader \o combine_chunk_summaries_body(chunk_summaries)

\* lines 864-925: the answer stripped, or None when the call raises
call_ollama_for_summary(markdown_content, reply) ==
  IF reply = None_ THEN None_ ELSE Some(strip(reply[1]))

\* lines 648-689: the chunks of the document with their ids
chunk_markdown(chunk_texts) ==
  [idx \in DOMAIN chunk_texts |->
     [id |-> idx, text |-> chunk_texts[idx], tokens |-> count_tokens(chunk_texts[idx])]]

\* a logged call of the model
Call(fn, arg) == [fn |-> fn, arg |-> arg]

\* lines 1041-1046: the loop over the chunks
ChunkCalls(chunk_list) ==
  [i \in DOMAIN chunk_list |-> Call("summarize_chunk", chunk_list[i])]

ChunkSummaries(chunk_list, chunk_replies) ==
  [i \in DOMAIN chunk_list |-> summarize_chunk(chunk_list[i], chunk_replies[i])]

\* the outcome of process_paper: its return value, the calls of the model
\* it made in order, and the summary written to the Quarto file
PaperOutcome(ret, use_chunking, calls, input, written) ==
  [ret |-> ret, use_chunking |-> use_chunking, calls |-> calls,
   input_for_final_summary |-> input, written |-> written]

\* lines 1023-1057 with use_map_reduce false
traditional(e) ==
  LET use_chunking == ~should_skip_chunking(e.markdown[1], SkipThreshold)
      chunk_list == chunk_markdown(e.chunk_texts)
      chunked == use_chunking /\ e.doc /\ chunk_list # <<>>
      input == IF chunked
                 THEN combine_chunk_summaries(ChunkSummaries(chunk_list, e.chunk_replies))
                 ELSE e.markdown[1]
      calls == (IF chunked THEN ChunkCalls(chunk_list) ELSE <<>>)
                 \o <<Call("call_ollama_for_summary", input)>>
      summary == call_ollama_for_summary(input, e.final_reply)
  IN IF summary = None_ \/ summary = Some(<<>>)
       THEN PaperOutcome(FALSE, Some(use_chunking), calls, Some(input), None_)
       ELSE PaperOutcome(TRUE, Some(use_chunking), calls, Some(input), summary)

\* lines 1019-1021 and 1059-1067 with use_map_reduce true
map_reduce(e) ==
  LET calls == <<Call("call_orchestrator_sync", e.markdown[1])>>
      summary == IF e.orchestrator_reply = None_ THEN None_
                 ELSE Some(e.orchestrator_reply[1])
  IN IF summary = None_ \/ summary = Some(<<>>)
       THEN PaperOutcome(FALSE, None_, calls, None_, None_)
       ELSE PaperOutcome(TRUE, None_, calls, None_, summary)

\* lines 987-1067; e holds what the PDF conversion, the chunker and the
\* model give during the call
process_paper(e) ==
  IF e.markdown = None_ \/ e.markdown = Some(<<>>)
    THEN PaperOutcome(FALSE, None_, <<>>, None_, None_)
  ELSE IF e.use_map_reduce THEN map_reduce(e)
  ELSE traditional(e)

\* Documents: markdown of a few characters, and of one token less than,
\* exactly, and one token more than the threshold.
MaxDocChunks == 2

Markdown(n) == [i \in 1..n |-> "x"]

Documents ==
  { Markdown(0), Markdown(8),
    Markdown(SkipThreshold * CharsPerToken - 1),
    Markdown(SkipThreshold * CharsPerToken),
    Markdown(SkipThreshold * CharsPerToken + CharsPerToken) }

DocChunkTexts == UNION { [1..n -> { <<"P">>, <<"Q">> }] : n \in 0..MaxDocChunks }

ChunkReplies == { None_, Some(<<"S">>) }

\* what the PDF conversion, the chunker and the model give during one call
PaperRuns ==
  UNION { [markdown : {None_} \cup { Some(d) : d \in Documents },
           use_map_reduce : BOOLEAN,
           doc : BOOLEAN,
           chunk_texts : {ct},
           chunk_replies : [DOMAIN ct -> ChunkReplies],
           final_reply : ChatReplies,
           orchestrator_reply : ChatReplies] : ct \in DocChunkTexts }

(***************************************************************************)
(* report_to_docling.py: run_map_step, run_reduce_step, summarize_pdf.     *)
(***************************************************************************)
max_retries == 3
reduce_max_retries == 3

DEFAULT_MODEL == "granite4:latest"

S_MapError ==
  <<"[", "E", "R", "R", "O", "R", ":", " ", "F", "a", "i", "l", "e", "d",
    " ", "t", "o", " ", "p", "r", "o", "c", "e", "s", "s", " ", "c", "h",
    "u", "n", "k", ":", " ">>
S_ReduceError ==
  <<"[", "E", "R", "R", "O", "R", ":", " ", "F", "a", "i", "l", "e", "d",
    " ", "t", "o", " ", "s", "y", "n", "t", "h", "e", "s", "i", "z", "e",
    " ", "s", "u", "m", "m", "a", "r", "y", ":", " ">>
S_SynthesisOpen ==
  <<"[", "C", "h", "u", "n", "k", " ">>
S_SynthesisClose ==
  <<"]", "\n">>
S_SynthesisDivider ==
  <<"\n", "\n", "-", "-", "-", "\n", "\n">>
S_TimedOut ==
  <<"t", "i", "m", "e", "d", " ", "o", "u", "t">>
S_BadResponse ==
  <<"i", "n", "v", "a", "l", "i", "d", " ", "r", "e", "s", "p", "o", "n",
    "s", "e">>

\* What one call of ollama.chat gives: an answer with a content, an
\* exception of a passing kind (the server is busy), or an exception of a
\* lasting kind (the answer has not the expected format).
Outcome(kind, txt) == [kind |-> kind, text |-> txt]

GenOutcomes ==
  { Outcome("reply", <<" ", "S", "\n">>),
    Outcome("transient", S_TimedOut),
    Outcome("fatal", S_BadResponse) }

IsFailure(outcome) == outcome.kind # "reply"

\* what ollama.chat would give at each attempt of one step, one attempt
\* beyond those the step may make
MaxOffered == max_retries + 1

ReplySeqs == [1..MaxOffered -> GenOutcomes]

\* lines 464 and 525: TEMPLATE.format(...)
Prompt(template, arg) == [template |-> template, arg |-> arg]

\* a call of ollama.chat in the log of a run
GenCall(fn, attempt, prompt, outcome) ==
  [fn |-> fn, attempt |-> attempt, prompt |-> prompt, outcome |-> outcome]

\* line 481-485 and 493-498: the records run_map_step returns
MapOutput(content, model) ==
  [content |-> content, model |-> model, tokens |-> count_tokens(content)]

MapErrorOutput(e, model) ==
  [content |-> S_MapError \o e \o <<"]">>, model |-> model, tokens |-> 0,
   error |-> e]

\* variant: one attempt more than max_retries
RECURSIVE map_attempts_OneMore(_, _, _, _, _)
map_attempts_OneMore(chunk, model, replies, attempt, calls) ==
  LET call == GenCall("run_map_step", attempt,
                      Prompt("MAP_PROMPT_TEMPLATE", chunk), replies[attempt + 1])
  IN IF ~IsFailure(replies[attempt + 1])
       THEN [ret |-> MapOutput(strip(replies[attempt + 1].text), model),
             calls |-> Append(calls, call)]
     ELSE IF attempt < max_retries
       THEN map_attempts_OneMore(chunk, model, replies, attempt + 1, Append(calls, call))
     ELSE [ret |-> MapErrorOutput(replies[attempt + 1].text, model),
           calls |-> Append(calls, call)]

\* lines 469-498: for attempt in range(max_retries); replies holds what
\* ollama.chat gives at each attempt
RECURSIVE map_attempts(_, _, _, _, _)
map_attempts(chunk, model, replies, attempt, calls) ==
  LET call == GenCall("run_map_step", attempt,
                      Prompt("MAP_PROMPT_TEMPLATE", chunk), replies[attempt + 1])
  IN IF ~IsFailure(replies[attempt + 1])
       THEN [ret |-> MapOutput(strip(replies[attempt + 1].text), model),
             calls |-> Append(calls, call)]
     ELSE IF attempt < max_retries - 1
       THEN map_attempts(chunk, model, replies, attempt + 1, Append(calls, call))
     ELSE [ret |-> MapErrorOutput(replies[attempt + 1].text, model),
           calls |-> Append(calls, call)]

\* lines 450-498
run_map_step(chunk, model, replies) == map_attempts(chunk, model, replies, 0, <<>>)

\* lines 517-520: f"[Chunk {i}]\n{content}"
synthesis_parts(mapped_chunks) ==
  [i \in DOMAIN mapped_chunks |->
     S_SynthesisOpen \o IntToStr(i) \o S_SynthesisClose \o mapped_chunks[i].content]

\* line 522
synthesis_document(mapped_chunks) ==
  join(S_SynthesisDivider, synthesis_parts(mapped_chunks))

\* variant: the answer of a failed attempt is taken for the summary
reduce_attempts_FirstAnswer(prompt, replies, attempt, calls) ==
  [ret |-> strip(replies[attempt + 1].text),
   calls |-> Append(calls, GenCall("run_reduce_step", attempt, prompt,
                                   replies[attempt + 1]))]

\* lines 530-549: for attempt in range(max_retries)
RECURSIVE reduce_attempts(_, _, _, _)
reduce_attempts(prompt, replies, attempt, calls) ==
  LET call == GenCall("run_reduce_step", attempt, prompt, replies[attempt + 1])
  IN IF ~IsFailure(replies[attempt + 1])
       THEN [ret |-> strip(replies[attempt + 1].text), calls |-> Append(calls, call)]
     ELSE IF attempt < reduce_max_retries - 1
       THEN reduce_attempts(prompt, replies, attempt + 1, Append(calls, call))
     ELSE [ret |-> S_ReduceError \o replies[attempt + 1].text \o <<"]">>,
           calls |-> Append(calls, call)]

\* lines 501-549
run_reduce_step(mapped_chunks, model, replies) ==
  reduce_attempts(Prompt("REDUCE_PROMPT_TEMPLATE", synthesis_document(mapped_chunks)),
                  replies, 0, <<>>)

\* summarize_pdf: the PDF files, by name and content, and the number of
\* chunks chunk_text makes of their cleaned text
MaxChunks == 2

PdfFile(stem, id, nchunks) == [stem |-> stem, id |-> id, nchunks |-> nchunks]

Pdfs == { PdfFile("a", 1, 1), PdfFile("a", 2, MaxChunks), PdfFile("b", 3, 0) }

NoPdf == PdfFile("", 0, 0)

\* lines 221-283: the text of the file
extract_text_from_pdf(d) == [text_of |-> d]

\* lines 286-337: the text cleaned
clean_extracted_text(text) == [cleaned |-> text]

\* line 608: chunk_text(cleaned_text, max_tokens=DEFAULT_CHUNK_SIZE,
\* overlap=DEFAULT_CHUNK_OVERLAP) gives the chunks of the document
pdf_chunk_text(cleaned_text) ==
  [i \in 1..cleaned_text.cleaned.text_of.nchunks |->
     [chunk |-> i, of |-> cleaned_text.cleaned.text_of.id]]

CacheSuffixes == {"text", "cleaned", "chunks", "map"}

Stems == { d.stem : d \in Pdfs }

\* lines 143-157: the cache file of a PDF is named by its stem and the suffix
get_cache_path(pdf_path, suffix) == <<pdf_path.stem, suffix>>

CachePaths == Stems \X CacheSuffixes

EmptyCache == [path \in CachePaths |-> None_]

\* variant: the file is never found
load_cache_Miss(files, filename) == None_

\* lines 177-196
load_cache(files, filename) == files[filename]

\* lines 160-174: the file is written, or the failure is logged and dropped
save_cache(files, obj, filename, writable) ==
  IF writable THEN [files EXCEPT ![filename] = Some(obj)] ELSE files

\* variant: the force flag is not consulted
cached_IgnoreForce(force_flag, files, filename) ==
  load_cache(files, filename) # None_

\* lines 583, 593, 603 and 618: if not force and (cached := load_cache(path))
cached(force_flag, files, filename) ==
  ~force_flag /\ load_cache(files, filename) # None_

\* variant: the record of a failed chunk is left out
append_result_SkipErrors(outputs, res) ==
  IF "error" \in DOMAIN res THEN outputs ELSE Append(outputs, res)

\* line 628: mapped_outputs.append(result)
append_result(outputs, res) == Append(outputs, res)

(***************************************************************************)
(* The scripts as state machines.                                          *)
(***************************************************************************)
VARIABLES df, NAICS_CROSSWALK, pub_title, title, result, sorted_matches, pc

\* chunk_text: its arguments, its result and the record of its loop
VARIABLES text, max_tokens, overlap, chunks, seeds, chunk_units, pc_chunk

\* process_paper: the document, the flag, and the outcome of the call
VARIABLES markdown, use_map_reduce, paper, pc_paper

paper_vars == <<markdown, use_map_reduce, paper, pc_paper>>

\* summarize_pdf: its arguments, the cache files, its locals, the calls of
\* ollama.chat and the stages executed in the run, and its position
VARIABLES pdf, force, cache_writable, cache, extracted_text, cleaned_text,
          pdf_chunks, map_i, mapped_outputs, final_summary, gen_calls, stages,
          pc_pdf

pdf_vars == <<pdf, force, cache_writable, cache, extracted_text, cleaned_text,
              pdf_chunks, map_i, mapped_outputs, final_summary, gen_calls, stages,
              pc_pdf>>

matcher_vars == <<df, NAICS_CROSSWALK, pub_title, title, result, sorted_matches, pc>>

chunk_vars == <<text, max_tokens, overlap, chunks, seeds, chunk_units, pc_chunk>>

\* industry_match_chat.py: the cases, the position of the main loop, the
\* answers ollama.chat gave, and the list results
VARIABLES CASES_DF, case_i, responses, results, pc_chat

chat_vars == <<CASES_DF, case_i, responses, results, pc_chat>>

\* get_data.py, the scraper: the page limit, the pages of the site, what
\* get_total_pages returned, the loop, the cache of pages, and the call of
\* fetch_page in progress
VARIABLES MAX_PAGES, site_pages, detected_pages, total_pages, page, fetched,
          page_cache, cache_at_call, attempt, http_requests, html,
          fetch_outcome, pc_scrape

scrape_vars == <<MAX_PAGES, site_pages, detected_pages, total_pages, page, fetched,
                 page_cache, cache_at_call, attempt, http_requests, html,
                 fetch_outcome, pc_scrape>>

ext_vars == <<chat_vars, scrape_vars>>

vars == <<matcher_vars, chunk_vars, paper_vars, pdf_vars, ext_vars>>

\* industry_match_chat.py is not running
InitChat ==
  /\ CASES_DF = <<>>
  /\ case_i = 0
  /\ responses = <<>>
  /\ results = <<>>
  /\ pc_chat = "idle"

\* the scraper is not running
InitScrapeIdle ==
  /\ MAX_PAGES = <<>>
  /\ site_pages = 0
  /\ detected_pages = 0
  /\ total_pages = 0
  /\ page = 0
  /\ fetched = <<>>
  /\ page_cache = <<>>
  /\ cache_at_call = <<>>
  /\ attempt = 0
  /\ http_requests = 0
  /\ html = <<>>
  /\ fetch_outcome = ""
  /\ pc_scrape = "idle"

InitExt == InitChat /\ InitScrapeIdle

\* chunk_text has not been called
InitChunk ==
  /\ text = <<>>
  /\ max_tokens = 0
  /\ overlap = 0
  /\ chunks = <<>>
  /\ seeds = <<>>
  /\ chunk_units = <<>>
  /\ pc_chunk = "idle"

\* the matcher script has not built its index
InitMatcher ==
  /\ df = <<>>
  /\ NAICS_CROSSWALK = EmptyIndex
  /\ pub_title = <<>>
  /\ title = <<>>
  /\ result = EmptyResult
  /\ sorted_matches = <<>>
  /\ pc = "load"

\* process_paper has not been called
InitPaper ==
  /\ markdown = None_
  /\ use_map_reduce = FALSE
  /\ paper = PaperOutcome(FALSE, None_, <<>>, None_, None_)
  /\ pc_paper = "idle"

\* summarize_pdf has not been called; the cache directory is empty
InitPdf ==
  /\ pdf = NoPdf
  /\ force = FALSE
  /\ cache_writable = TRUE
  /\ cache = EmptyCache
  /\ extracted_text = None_
  /\ cleaned_text = None_
  /\ pdf_chunks = <<>>
  /\ map_i = 0
  /\ mapped_outputs = <<>>
  /\ final_summary = None_
  /\ gen_calls = <<>>
  /\ stages = <<>>
  /\ pc_pdf = "idle"

Init == InitMatcher /\ InitChunk /\ InitPaper /\ InitPdf /\ InitExt

\* lines 152-154: the index is built once, when the script is loaded
Load ==
  /\ pc = "load"
  /\ \E d \in Tables :
       /\ df' = d
       /\ NAICS_CROSSWALK' = build_crosswalk(d)
  /\ pc' = "ready"
  /\ UNCHANGED <<pub_title, title, result, sorted_matches>>
  /\ UNCHANGED <<chunk_vars, paper_vars, pdf_vars, ext_vars>>

\* lines 460-462: cleaned = clean_title(title);
\* match_result = match_naics(cleaned)
Match ==
  /\ pc = "ready"
  /\ \E p \in PubTitles :
       \E order \in IterationOrders(NAICS_CROSSWALK, title_tokens(clean_title(p))) :
         LET t == clean_title(p)
             r == match_naics(NAICS_CROSSWALK, t, order)
         IN /\ pub_title' = p
            /\ title' = t
            /\ result' = r.result
            /\ sorted_matches' = r.sorted_matches
            /\ NAICS_CROSSWALK' = r.index
  /\ pc' = "matched"
  /\ UNCHANGED df
  /\ UNCHANGED <<chunk_vars, paper_vars, pdf_vars, ext_vars>>

\* lines 464-485: the result is copied into a record and the loop goes on
\* to the next publication; the locals of the call are dropped
Record ==
  /\ pc = "matched"
  /\ pub_title' = <<>>
  /\ title' = <<>>
  /\ result' = EmptyResult
  /\ sorted_matches' = <<>>
  /\ pc' = "ready"
  /\ UNCHANGED <<df, NAICS_CROSSWALK>>
  /\ UNCHANGED <<chunk_vars, paper_vars, pdf_vars, ext_vars>>

Next == Load \/ Match \/ Record

Spec == Init /\ [][Next]_vars

\* summarize_pdf line 608 calls chunk_text(cleaned_text, max_tokens, overlap)
ChunkCall ==
  /\ pc_chunk = "idle"
  /\ text' \in Texts
  /\ max_tokens' \in 1..MaxTokens
  /\ overlap' \in 0..max_tokens'
  /\ pc_chunk' = "called"
  /\ UNCHANGED <<chunks, seeds, chunk_units>>
  /\ UNCHANGED <<matcher_vars, paper_vars, pdf_vars, ext_vars>>

\* lines 340-419: chunk_text returns
ChunkText ==
  /\ pc_chunk = "called"
  /\ LET st == chunk_text(text, max_tokens, overlap)
     IN /\ chunks' = st.chunks
        /\ seeds' = st.seeds
        /\ chunk_units' = st.chunk_units
  /\ pc_chunk' = "returned"
  /\ UNCHANGED <<text, max_tokens, overlap>>
  /\ UNCHANGED <<matcher_vars, paper_vars, pdf_vars, ext_vars>>

NextChunk == ChunkCall \/ ChunkText

SpecChunk == Init /\ [][NextChunk]_vars

\* lines 987-1067: one call of process_paper
ProcessPaper ==
  /\ pc_paper = "idle"
  /\ \E e \in PaperRuns :
       /\ markdown' = e.markdown
       /\ use_map_reduce' = e.use_map_reduce
       /\ paper' = process_paper(e)
  /\ pc_paper' = "returned"
  /\ UNCHANGED <<matcher_vars, chunk_vars, pdf_vars, ext_vars>>

NextPaper == ProcessPaper

SpecPaper == Init /\ [][NextPaper]_vars

\* The cache files an earlier run of summarize_pdf on d leaves, when its
\* map step gave the outputs outs.
CacheAfterRun(d, outs) ==
  [path \in CachePaths |->
     IF path[1] # d.stem THEN None_
     ELSE IF path[2] = "text" THEN Some(extract_text_from_pdf(d))
     ELSE IF path[2] = "cleaned"
       THEN Some(clean_extracted_text(extract_text_from_pdf(d)))
     ELSE IF path[2] = "chunks"
       THEN Some(pdf_chunk_text(clean_extracted_text(extract_text_from_pdf(d))))
     ELSE Some(outs)]

\* the map outputs of an earlier run: all chunks summarized, or the first
\* chunk failed
EarlierOutputs(d) ==
  { [i \in 1..d.nchunks |-> MapOutput(<<"S">>, DEFAULT_MODEL)],
    [i \in 1..d.nchunks |->
       IF i = 1 THEN MapErrorOutput(S_TimedOut, DEFAULT_MODEL)
       ELSE MapOutput(<<"S">>, DEFAULT_MODEL)] }

\* the cache directory with only the file of one stage left in it
OnlyStage(files, suffix) ==
  [path \in CachePaths |-> IF path[2] = suffix THEN files[path] ELSE None_]

EarlierCaches ==
  { EmptyCache } \cup
  UNION { { CacheAfterRun(d, outs) : outs \in EarlierOutputs(d) } :
            d \in { p \in Pdfs : p.stem = "a" } } \cup
  { OnlyStage(CacheAfterRun(PdfFile("a", 2, MaxChunks), outs), "map") :
      outs \in EarlierOutputs(PdfFile("a", 2, MaxChunks)) }

\* the script starts with the cache directory as earlier runs left it
InitPipeline ==
  /\ InitMatcher /\ InitChunk /\ InitPaper /\ InitExt
  /\ pdf = NoPdf
  /\ force = FALSE
  /\ cache_writable = TRUE
  /\ cache \in EarlierCaches
  /\ extracted_text = None_
  /\ cleaned_text = None_
  /\ pdf_chunks = <<>>
  /\ map_i = 0
  /\ mapped_outputs = <<>>
  /\ final_summary = None_
  /\ gen_calls = <<>>
  /\ stages = <<>>
  /\ pc_pdf = "idle"

\* lines 1215 and 571-574: main calls summarize_pdf(args.file, model, force);
\* a path that does not exist raises FileNotFoundError
StartRun ==
  /\ pc_pdf = "idle"
  /\ pdf' \in Pdfs
  /\ force' \in BOOLEAN
  /\ cache_writable' \in BOOLEAN
  /\ \E exists \in BOOLEAN : pc_pdf' = IF exists THEN "extract" ELSE "raised"
  /\ UNCHANGED <<cache, extracted_text, cleaned_text, pdf_chunks, map_i,
                 mapped_outputs, final_summary, gen_calls, stages>>
  /\ UNCHANGED <<matcher_vars, chunk_vars, paper_vars, ext_vars>>

\* lines 580-588: step 1, the text from the cache or from the PDF; the
\* extraction raises when docling and PyMuPDF both fail
ExtractStage ==
  /\ pc_pdf = "extract"
  /\ LET path == get_cache_path(pdf, "text")
     IN IF cached(force, cache, path)
          THEN /\ extracted_text' = load_cache(cache, path)
               /\ pc_pdf' = "clean"
               /\ UNCHANGED <<cache, stages>>
          ELSE \E extracted \in BOOLEAN :
                 IF extracted
                   THEN /\ extracted_text' = Some(extract_text_from_pdf(pdf))
                        /\ cache' = save_cache(cache, extract_text_from_pdf(pdf),
                                               path, cache_writable)
                        /\ stages' = Append(stages, "extract")
                        /\ pc_pdf' = "clean"
                   ELSE /\ pc_pdf' = "raised"
                        /\ stages' = Append(stages, "extract")
                        /\ UNCHANGED <<extracted_text, cache>>
  /\ UNCHANGED <<pdf, force, cache_writable, cleaned_text, pdf_chunks, map_i,
                 mapped_outputs, final_summary, gen_calls>>
  /\ UNCHANGED <<matcher_vars, chunk_vars, paper_vars, ext_vars>>

\* lines 590-598: step 2
CleanStage ==
  /\ pc_pdf = "clean"
  /\ LET path == get_cache_path(pdf, "cleaned")
     IN IF cached(force, cache, path)
          THEN /\ cleaned_text' = load_cache(cache, path)
               /\ UNCHANGED <<cache, stages>>
          ELSE /\ cleaned_text' = Some(clean_extracted_text(extracted_text[1]))
               /\ cache' = save_cache(cache, clean_extracted_text(extracted_text[1]),
                                      path, cache_writable)
               /\ stages' = Append(stages, "clean")
  /\ pc_pdf' = "chunk"
  /\ UNCHANGED <<pdf, force, cache_writable, extracted_text, pdf_chunks, map_i,
                 mapped_outputs, final_summary, gen_calls>>
  /\ UNCHANGED <<matcher_vars, chunk_vars, paper_vars, ext_vars>>

\* lines 600-613: step 3
ChunkStage ==
  /\ pc_pdf = "chunk"
  /\ LET path == get_cache_path(pdf, "chunks")
     IN IF cached(force, cache, path)
          THEN /\ pdf_chunks' = load_cache(cache, path)[1]
               /\ UNCHANGED <<cache, stages>>
          ELSE /\ pdf_chunks' = pdf_chunk_text(cleaned_text[1])
               /\ cache' = save_cache(cache, pdf_chunk_text(cleaned_text[1]),
                                      path, cache_writable)
               /\ stages' = Append(stages, "chunk")
  /\ pc_pdf' = "mapcache"
  /\ UNCHANGED <<pdf, force, cache_writable, extracted_text, cleaned_text, map_i,
                 mapped_outputs, final_summary, gen_calls>>
  /\ UNCHANGED <<matcher_vars, chunk_vars, paper_vars, ext_vars>>

\* lines 615-623: step 4, the map outputs from the cache, or the loop starts
MapStage ==
  /\ pc_pdf = "mapcache"
  /\ LET path == get_cache_path(pdf, "map")
     IN IF cached(force, cache, path)
          THEN /\ mapped_outputs' = load_cache(cache, path)[1]
               /\ pc_pdf' = "reduce"
               /\ UNCHANGED map_i
          ELSE /\ mapped_outputs' = <<>>
               /\ map_i' = 1
               /\ pc_pdf' = "map"
  /\ UNCHANGED <<pdf, force, cache_writable, cache, extracted_text, cleaned_text,
                 pdf_chunks, final_summary, gen_calls, stages>>
  /\ UNCHANGED <<matcher_vars, chunk_vars, paper_vars, ext_vars>>

\* lines 625-628: one turn of the loop, run_map_step on the next chunk
MapChunk ==
  /\ pc_pdf = "map"
  /\ map_i <= Len(pdf_chunks)
  /\ \E replies \in ReplySeqs :
       LET r == run_map_step(pdf_chunks[map_i], DEFAULT_MODEL, replies)
       IN /\ mapped_outputs' = append_result(mapped_outputs, r.ret)
          /\ gen_calls' = gen_calls \o r.calls
  /\ map_i' = map_i + 1
  /\ UNCHANGED <<pdf, force, cache_writable, cache, extracted_text, cleaned_text,
                 pdf_chunks, final_summary, stages, pc_pdf>>
  /\ UNCHANGED <<matcher_vars, chunk_vars, paper_vars, ext_vars>>

\* lines 630-636: the loop is over, the map outputs are cached
MapSave ==
  /\ pc_pdf = "map"
  /\ map_i > Len(pdf_chunks)
  /\ cache' = save_cache(cache, mapped_outputs, get_cache_path(pdf, "map"),
                         cache_writable)
  /\ stages' = Append(stages, "map")
  /\ pc_pdf' = "reduce"
  /\ UNCHANGED <<pdf, force, cache_writable, extracted_text, cleaned_text,
                 pdf_chunks, map_i, mapped_outputs, final_summary, gen_calls>>
  /\ UNCHANGED <<matcher_vars, chunk_vars, paper_vars, ext_vars>>

\* lines 638-645: step 5, run_reduce_step on the map outputs, always fresh
ReduceStage ==
  /\ pc_pdf = "reduce"
  /\ \E replies \in ReplySeqs :
       LET r == run_reduce_step(mapped_outputs, DEFAULT_MODEL, replies)
       IN /\ final_summary' = Some(r.ret)
          /\ gen_calls' = gen_calls \o r.calls
  /\ stages' = Append(stages, "reduce")
  /\ pc_pdf' = "done"
  /\ UNCHANGED <<pdf, force, cache_writable, cache, extracted_text, cleaned_text,
                 pdf_chunks, map_i, mapped_outputs>>
  /\ UNCHANGED <<matcher_vars, chunk_vars, paper_vars, ext_vars>>

NextPipeline ==
  \/ StartRun \/ ExtractStage \/ CleanStage \/ ChunkStage
  \/ MapStage \/ MapChunk \/ MapSave \/ ReduceStage

SpecPipeline == InitPipeline /\ [][NextPipeline]_vars

(***************************************************************************)
(* industry_match_chat.py.  The content of an answer is the JSON document  *)
(* it holds: no JSON at all, an array, a string, or an object, which is a  *)
(* function from its keys to values that are strings or numbers.           *)
(***************************************************************************)
MaxCases == 2

JStr(v) == [t |-> "str", v |-> v]

JNum(v) == [t |-> "num", v |-> v]

NotJson == [json |-> "invalid"]

JsonArray == [json |-> "array"]

JsonString == [json |-> "string"]

JsonObject(o) == [json |-> "object", obj |-> o]

\* an answer as the prompt asks for it
O_valid ==
  [k \in {"case_title", "best_match_SIC", "best_match_NAICS", "reasoning"} |->
     JStr(k)]

\* an object with one of the fields only
O_partial == [k \in {"best_match_SIC"} |-> JStr("3140")]

\* an object that names the case but not the codes
O_repeat == [k \in {"case_title", "reasoning"} |-> JStr(k)]

\* an object with a code given as a number
O_number == [k \in {"best_match_NAICS"} |-> JNum(31640)]

Contents ==
  { NotJson, JsonArray, JsonString,
    JsonObject(O_valid), JsonObject(O_partial), JsonObject(O_repeat),
    JsonObject(O_number) }

\* lines 147-151: ollama.chat answers, or raises (the server is not
\* running, the model is not pulled)
ChatReply(content) == [kind |-> "content", content |-> content]

ChatRaise == [kind |-> "raise"]

ChatOutcomes == { ChatRaise } \cup { ChatReply(c) : c \in Contents }

Case(t, id) == [clean_title |-> t, investigation_id |-> id]

Cases == { Case("Footwear", "TA-201-1"), Case("Steel", "TA-201-2") }

CaseSeqs == UNION { [1..n -> Cases] : n \in 0..MaxCases }

\* the outcome of an expression: a value, or the exception it raises
Value(v) == [raises |-> "", value |-> v]

Raises(e) == [raises |-> e, value |-> <<>>]

\* line 157: json.loads(content)
json_loads(content) ==
  IF content.json = "invalid" THEN Raises("JSONDecodeError") ELSE Value(content)

IndustryMatchFields == {"case_title", "best_match_SIC", "best_match_NAICS", "reasoning"}

MatchResultFields ==
  {"case_title", "investigation_id", "best_match_SIC", "best_match_NAICS",
   "reasoning", "error", "raw"}

\* lines 44-51 and 159: IndustryMatch(**parsed_dict); ** of a value that is
\* no mapping is a TypeError; every field is required and a str
IndustryMatch(parsed) ==
  IF parsed.json # "object" THEN Raises("TypeError")
  ELSE IF \A k \in IndustryMatchFields :
            k \in DOMAIN parsed.obj /\ parsed.obj[k].t = "str"
    THEN Value([k \in IndustryMatchFields |-> parsed.obj[k]])
    ELSE Raises("ValidationError")

\* lines 54-62: MatchResult(<given>, **extra); a keyword given twice is a
\* TypeError; the fields are optional str, case_title a required str; the
\* value is that of model_dump()
MatchResult(given, extra) ==
  IF (DOMAIN given) \cap (DOMAIN extra) # {} THEN Raises("TypeError")
  ELSE IF \E k \in (DOMAIN extra) \cap MatchResultFields : extra[k].t # "str"
    THEN Raises("ValidationError")
  ELSE Value([k \in MatchResultFields |->
                IF k \in DOMAIN given THEN given[k]
                ELSE IF k \in DOMAIN extra THEN Some(extra[k].v)
                ELSE None_])

NoFields == [k \in {} |-> None_]

\* the keyword arguments of the lines 162, 167 and 169; INCLUDE_RAW is False
ErrorArgs(title_, investigation_id, message) ==
  [k \in {"case_title", "investigation_id", "error", "raw"} |->
     IF k = "case_title" THEN Some(title_)
     ELSE IF k = "investigation_id" THEN Some(investigation_id)
     ELSE IF k = "error" THEN Some(message)
     ELSE None_]

\* lines 156-169: the try statement; an exception no clause names leaves it
parse_and_validate(content, title_, investigation_id) ==
  LET parsed == json_loads(content)
  IN IF parsed.raises = "JSONDecodeError"
       THEN MatchResult(ErrorArgs(title_, investigation_id, "JSON parse failed"),
                        NoFields)
     ELSE
       LET validated == IndustryMatch(parsed.value)
       IN IF validated.raises = "ValidationError"
            THEN LET partial == MatchResult(
                                  ErrorArgs(title_, investigation_id, "Validation error"),
                                  parsed.value.obj)
                 IN IF partial.raises # ""
                      THEN MatchResult(
                             ErrorArgs(title_, investigation_id,
                                       "JSON parse and validation failed"),
                             NoFields)
                      ELSE partial
          ELSE IF validated.raises # "" THEN validated
          ELSE MatchResult(
                 [k \in {"investigation_id", "raw"} |->
                    IF k = "raw" THEN None_ ELSE Some(investigation_id)],
                 validated.value)

\* the script starts on a table of cases
InitChatRun ==
  /\ InitMatcher /\ InitChunk /\ InitPaper /\ InitPdf /\ InitScrapeIdle
  /\ CASES_DF \in CaseSeqs
  /\ case_i = 1
  /\ responses = <<>>
  /\ results = <<>>
  /\ pc_chat = "loop"

\* lines 113-172: one turn of the main loop
ChatCase ==
  /\ pc_chat = "loop"
  /\ case_i <= Len(CASES_DF)
  /\ \E response \in ChatOutcomes :
       /\ responses' = Append(responses, response)
       /\ IF response.kind = "raise"
            THEN /\ pc_chat' = "raised"
                 /\ UNCHANGED <<results, case_i>>
            ELSE LET row == CASES_DF[case_i]
                     r == parse_and_validate(response.content, row.clean_title,
                                             row.investigation_id)
                 IN IF r.raises # ""
                      THEN /\ pc_chat' = "raised"
                           /\ UNCHANGED <<results, case_i>>
                      ELSE /\ results' = Append(results, r.value)
                           /\ case_i' = case_i + 1
                           /\ UNCHANGED pc_chat
  /\ UNCHANGED CASES_DF
  /\ UNCHANGED <<matcher_vars, chunk_vars, paper_vars, pdf_vars, scrape_vars>>

\* lines 178-186: the loop is over, the results are written
ChatSave ==
  /\ pc_chat = "loop"
  /\ case_i > Len(CASES_DF)
  /\ pc_chat' = "saved"
  /\ UNCHANGED <<CASES_DF, case_i, responses, results>>
  /\ UNCHANGED <<matcher_vars, chunk_vars, paper_vars, pdf_vars, scrape_vars>>

NextChat == ChatCase \/ ChatSave

SpecChat == InitChatRun /\ [][NextChat]_vars

(***************************************************************************)
(* get_data.py, the scraper.  The site has the pages 0 .. site_pages - 1.  *)
(* The text of a response is the page asked for, the empty text, or the    *)
(* page of the Cloudflare challenge.                                       *)
(***************************************************************************)
MaxSitePages == 3

MaxPageLimit == 2

fetch_max_retries == 5

PageNums == 0..MaxSitePages

PageHtml(p) == [html_of |-> p, challenge |-> FALSE]

ChallengeHtml == [html_of |-> -1, challenge |-> TRUE]

EmptyHtml == <<>>

\* line 167: "Challenge Validation" in r.text
HasChallenge(r_text) == r_text # EmptyHtml /\ r_text.challenge

\* what requests.get does for page p: an answer with status 200, a status
\* 403, another error status, or an exception of the connection
HttpOk(r_text) == [kind |-> "ok", text |-> r_text]

HttpResponses(p) ==
  { HttpOk(PageHtml(p)), HttpOk(EmptyHtml), HttpOk(ChallengeHtml),
    [kind |-> "403"], [kind |-> "http_error"], [kind |-> "network_error"] }

NoPages == [p \in PageNums |-> None_]

\* lines 116-123: the file is written, or the failure is printed
save_page_html(files, page_num, html_content, writable) ==
  IF writable THEN [files EXCEPT ![page_num] = Some(html_content)] ELSE files

\* lines 126-135
load_page_html(files, page_num) == files[page_num]

\* lines 143-147: if cached_html, which an empty file is not
cache_hit(files, page_num) ==
  load_page_html(files, page_num) # None_
    /\ load_page_html(files, page_num)[1] # EmptyHtml

\* the end of one turn of the loop of fetch_page
Retry(files) == [then |-> "retry", text |-> EmptyHtml, files |-> files]

Return(r_text, files) == [then |-> "return", text |-> r_text, files |-> files]

Raise(files) == [then |-> "raise", text |-> EmptyHtml, files |-> files]

\* variant: the page is saved before it is looked at
fetch_attempt_SaveFirst(files, page_num, n, response, writable) ==
  IF response.kind = "ok"
    THEN IF HasChallenge(response.text)
           THEN IF n < fetch_max_retries - 1
                  THEN Retry(save_page_html(files, page_num, response.text, writable))
                  ELSE Return(EmptyHtml,
                              save_page_html(files, page_num, response.text, writable))
           ELSE Return(response.text,
                       save_page_html(files, page_num, response.text, writable))
  ELSE IF response.kind = "403" THEN Retry(files)
  ELSE IF response.kind = "http_error" THEN Raise(files)
  ELSE IF n = fetch_max_retries - 1 THEN Return(EmptyHtml, files)
  ELSE Retry(files)

\* lines 150-188: attempt n of the loop of fetch_page
fetch_attempt(files, page_num, n, response, writable) ==
  IF response.kind = "ok"
    THEN IF HasChallenge(response.text)
           THEN IF n < fetch_max_retries - 1
                  THEN Retry(files)
                  ELSE Return(EmptyHtml, files)
           ELSE Return(response.text,
                       save_page_html(files, page_num, response.text, writable))
  ELSE IF response.kind = "403" THEN Retry(files)
  ELSE IF response.kind = "http_error" THEN Raise(files)
  ELSE IF n = fetch_max_retries - 1 THEN Return(EmptyHtml, files)
  ELSE Retry(files)

\* line 254: MAX_PAGES = int(sys.argv[1]) if len(sys.argv) > 1 else None
PageLimits == { None_ } \cup { Some(n) : n \in 0..MaxPageLimit }

\* lines 43-108: the index of the last page, or 0 when the site could not
\* be read or shows no pagination
TotalPagesReturns(n_pages) == { n_pages - 1, 0 }

\* lines 259-261: if MAX_PAGES: total_pages = min(MAX_PAGES, total_pages)
limit_total_pages(limit, total) ==
  IF limit # None_ /\ limit[1] # 0
    THEN (IF limit[1] < total THEN limit[1] ELSE total)
    ELSE total

\* the script is started on an empty cache directory
InitScrape ==
  /\ InitMatcher /\ InitChunk /\ InitPaper /\ InitPdf /\ InitChat
  /\ MAX_PAGES = None_
  /\ site_pages = 0
  /\ detected_pages = 0
  /\ total_pages = 0
  /\ page = 0
  /\ fetched = <<>>
  /\ page_cache = NoPages
  /\ cache_at_call = NoPages
  /\ attempt = 0
  /\ http_requests = 0
  /\ html = None_
  /\ fetch_outcome = ""
  /\ pc_scrape = "start"

\* lines 254-264: the script is run, for the first time or again; the site
\* has some pages, get_total_pages returns or raises
ScrapeStart ==
  /\ pc_scrape \in {"start", "done", "raised"}
  /\ MAX_PAGES' \in PageLimits
  /\ site_pages' \in 1..MaxSitePages
  /\ \E raised \in BOOLEAN :
       IF raised
         THEN /\ pc_scrape' = "raised"
              /\ UNCHANGED <<detected_pages, total_pages>>
         ELSE /\ detected_pages' \in TotalPagesReturns(site_pages')
              /\ total_pages' = limit_total_pages(MAX_PAGES', detected_pages')
              /\ pc_scrape' = "loop"
  /\ page' = 0
  /\ fetched' = <<>>
  /\ cache_at_call' = page_cache
  /\ attempt' = 0
  /\ http_requests' = 0
  /\ html' = None_
  /\ fetch_outcome' = ""
  /\ UNCHANGED page_cache
  /\ UNCHANGED <<matcher_vars, chunk_vars, paper_vars, pdf_vars, chat_vars>>

\* lines 264-266 and 138-149: html = fetch_page(page); the cache is looked
\* at first
FetchCall ==
  /\ pc_scrape = "loop"
  /\ page <= total_pages
  /\ fetched' = Append(fetched, page)
  /\ cache_at_call' = page_cache
  /\ attempt' = 0
  /\ http_requests' = 0
  /\ IF cache_hit(page_cache, page)
       THEN /\ html' = load_page_html(page_cache, page)
            /\ fetch_outcome' = "cache"
            /\ pc_scrape' = "fetched"
       ELSE /\ html' = None_
            /\ fetch_outcome' = ""
            /\ pc_scrape' = "fetching"
  /\ UNCHANGED <<MAX_PAGES, site_pages, detected_pages, total_pages, page, page_cache>>
  /\ UNCHANGED <<matcher_vars, chunk_vars, paper_vars, pdf_vars, chat_vars>>

\* lines 149-190: one turn of for attempt in range(max_retries), with one
\* call of requests.get; after the last turn fetch_page returns ""
FetchAttempt ==
  /\ pc_scrape = "fetching"
  /\ attempt < fetch_max_retries
  /\ \E response \in HttpResponses(page), writable \in BOOLEAN :
       LET r == fetch_attempt(page_cache, page, attempt, response, writable)
       IN /\ page_cache' = r.files
          /\ IF r.then = "raise"
               THEN /\ pc_scrape' = "raised"
                    /\ fetch_outcome' = "raised"
                    /\ UNCHANGED html
             ELSE IF r.then = "return"
               THEN /\ pc_scrape' = "fetched"
                    /\ fetch_outcome' = IF response.kind = "ok"
                                             /\ ~HasChallenge(response.text)
                                          THEN "ok" ELSE "failed"
                    /\ html' = Some(r.text)
             ELSE IF attempt = fetch_max_retries - 1
               THEN /\ pc_scrape' = "fetched"
                    /\ fetch_outcome' = "failed"
                    /\ html' = Some(EmptyHtml)
             ELSE /\ UNCHANGED <<pc_scrape, fetch_outcome, html>>
  /\ attempt' = attempt + 1
  /\ http_requests' = http_requests + 1
  /\ UNCHANGED <<MAX_PAGES, site_pages, detected_pages, total_pages, page, fetched,
                 cache_at_call>>
  /\ UNCHANGED <<matcher_vars, chunk_vars, paper_vars, pdf_vars, chat_vars>>

\* lines 267-279: the titles of the page are recorded and the loop goes on
NextPage ==
  /\ pc_scrape = "fetched"
  /\ page' = page + 1
  /\ pc_scrape' = "loop"
  /\ UNCHANGED <<MAX_PAGES, site_pages, detected_pages, total_pages, fetched,
                 page_cache, cache_at_call, attempt, http_requests, html,
                 fetch_outcome>>
  /\ UNCHANGED <<matcher_vars, chunk_vars, paper_vars, pdf_vars, chat_vars>>

\* line 264: range(total_pages + 1) is exhausted
ScrapeDone ==
  /\ pc_scrape = "loop"
  /\ page > total_pages
  /\ pc_scrape' = "done"
  /\ UNCHANGED <<MAX_PAGES, site_pages, detected_pages, total_pages, page, fetched,
                 page_cache, cache_at_call, attempt, http_requests, html,
                 fetch_outcome>>
  /\ UNCHANGED <<matcher_vars, chunk_vars, paper_vars, pdf_vars, chat_vars>>

NextScrape == ScrapeStart \/ FetchCall \/ FetchAttempt \/ NextPage \/ ScrapeDone

SpecScrape == InitScrape /\ [][NextScrape]_vars

(***************************************************************************)
(* Vocabulary of the properties, computed from the state and not from the  *)
(* operators of match_naics.                                               *)
(***************************************************************************)
Matched == pc = "matched"

Tokens == Range(findall_az(title))

Keys == DOMAIN NAICS_CROSSWALK

CodesOf(w) == { NAICS_CROSSWALK[w][i].code : i \in DOMAIN NAICS_CROSSWALK[w] }

Candidates == UNION { CodesOf(w) : w \in Tokens \cap Keys }

\* number of distinct tokens of the title whose bucket contains code c
ScoreOf(c) == Cardinality({ w \in Tokens \cap Keys : c \in CodesOf(w) })

Min(a, b) == IF a < b THEN a ELSE b

\* the members of a set of str in ascending order
RECURSIVE Ascending(_)
Ascending(S) ==
  IF S = {} THEN <<>>
  ELSE LET m == CHOOSE x \in S : \A y \in S : x = y \/ StrLess(x, y)
       IN <<m>> \o Ascending(S \ {m})

\* the fields of a comma-separated string (none for the empty string)
RECURSIVE Fields(_, _)
Fields(s, cur) ==
  IF s = <<>> THEN (IF cur = <<>> THEN <<>> ELSE <<cur>>)
  ELSE IF Head(s) = "," THEN <<cur>> \o Fields(Tail(s), <<>>)
  ELSE Fields(Tail(s), Append(cur, Head(s)))

Ranked == DOMAIN sorted_matches

(***************************************************************************)
(* C1: when the candidates of a match hold a priority-sector code and a    *)
(* non-priority code, every priority-sector candidate is ranked before     *)
(* every non-priority candidate, and the best code is a priority-sector    *)
(* code with is_large_industry true.                                       *)
(***************************************************************************)
C1_PriorityFirst ==
  Matched =>
    /\ \A i, j \in Ranked :
         (sorted_matches[i].is_large /\ ~sorted_matches[j].is_large) => i < j
    /\ (\E i, j \in Ranked : sorted_matches[i].is_large /\ ~sorted_matches[j].is_large)
         => /\ result.is_large_industry
            /\ \E i \in Ranked : /\ sorted_matches[i].is_large
                                 /\ result.naics = Some(sorted_matches[i].code)

(***************************************************************************)
(* C2: of two candidates with the same priority flag, the one with the     *)
(* strictly higher score is ranked first.                                  *)
(***************************************************************************)
C2_HigherScoreFirst ==
  Matched =>
    \A i, j \in Ranked :
      (/\ sorted_matches[i].is_large = sorted_matches[j].is_large
       /\ sorted_matches[i].score > sorted_matches[j].score) => i < j

(***************************************************************************)
(* C3: of two candidates with equal priority flag and equal score, the     *)
(* one with the longer code string is ranked first.                        *)
(***************************************************************************)
C3_LongerCodeFirst ==
  Matched =>
    \A i, j \in Ranked :
      (/\ sorted_matches[i].is_large = sorted_matches[j].is_large
       /\ sorted_matches[i].score = sorted_matches[j].score
       /\ Len(sorted_matches[i].code) > Len(sorted_matches[j].code)) => i < j

(***************************************************************************)
(* C4: the result of match_naics for a given index and title is the same   *)
(* for every order in which the token set is iterated.                     *)
(***************************************************************************)
C4_OrderIndependent ==
  Matched =>
    \A order \in IterationOrders(NAICS_CROSSWALK, Tokens) :
      match_naics(NAICS_CROSSWALK, title, order).result = result

(***************************************************************************)
(* C5: match_confidence lies in [0, 1], and is 0 when the title has no     *)
(* token or no token of the title is a key of the index.                   *)
(***************************************************************************)
C5_ConfidenceRange ==
  Matched =>
    /\ result.match_confidence.den > 0
    /\ 0 <= result.match_confidence.num
    /\ result.match_confidence.num <= result.match_confidence.den
    /\ (Tokens = {} \/ Tokens \cap Keys = {}) => result.match_confidence.num = 0

C5_Witness ==
  /\ Matched
  /\ Tokens \cap Keys # {}
  /\ 0 < result.match_confidence.num
  /\ result.match_confidence.num < result.match_confidence.den

(***************************************************************************)
(* C6: when a token of the title is a key of the index, match_confidence   *)
(* is the number of distinct tokens whose bucket contains the best code,   *)
(* divided by the number of all distinct tokens of the title (short and    *)
(* stop-listed tokens included).                                           *)
(***************************************************************************)
C6_ConfidenceQuotient ==
  (Matched /\ Tokens \cap Keys # {}) =>
    /\ result.naics # None_
    /\ result.match_confidence.den > 0
    /\ result.match_confidence.num * Cardinality(Tokens)
         = ScoreOf(result.naics[1]) * result.match_confidence.den

C6_Witness ==
  /\ Matched
  /\ Tokens \cap Keys # {}
  /\ \E w \in Tokens : Len(w) <= 3
  /\ \E w \in Tokens : w \in STOPWORDS

(***************************************************************************)
(* C7: for a title none of whose tokens is a key of the index the result   *)
(* has no code, industry or sector, confidence 0, is_large_industry false, *)
(* no alternatives, no matched keyword, the distinct tokens (the first 10  *)
(* in ascending order) as unmatched keywords, and total_tokens the number  *)
(* of distinct tokens.                                                     *)
(***************************************************************************)
C7_NoMatch ==
  (Matched /\ Tokens \cap Keys = {}) =>
    /\ result.naics = None_
    /\ result.industry = None_
    /\ result.sector = None_
    /\ result.sector_name = None_
    /\ result.match_confidence.num = 0
    /\ result.is_large_industry = FALSE
    /\ result.all_matches = <<>>
    /\ result.matched_keywords = <<>>
    /\ Fields(result.unmatched_keywords, <<>>)
         = SubSeq(Ascending(Tokens), 1, Min(UnmatchedCap, Cardinality(Tokens)))
    /\ result.total_tokens = Cardinality(Tokens)

C7_Witness ==
  /\ Matched
  /\ Tokens \cap Keys = {}
  /\ Cardinality(Tokens) > UnmatchedCap
  /\ Keys # {}

(***************************************************************************)
(* C8: when there is a candidate, all_matches has min(3, number of         *)
(* candidates) entries, which are the first entries of the ranking in      *)
(* ranked order, no code repeated, the first being the best code.          *)
(***************************************************************************)
C8_TopThree ==
  (Matched /\ Candidates # {}) =>
    /\ { sorted_matches[i].code : i \in Ranked } = Candidates
    /\ Len(sorted_matches) = Cardinality(Candidates)
    /\ Len(result.all_matches) = Min(TopMatches, Cardinality(Candidates))
    /\ \A i \in DOMAIN result.all_matches :
         /\ result.all_matches[i].naics = sorted_matches[i].code
         /\ result.all_matches[i].title = sorted_matches[i].title
         /\ result.all_matches[i].is_large = sorted_matches[i].is_large
    /\ \A i, j \in DOMAIN result.all_matches :
         result.all_matches[i].naics = result.all_matches[j].naics => i = j
    /\ result.naics = Some(result.all_matches[1].naics)

C8_Witness ==
  /\ Matched
  /\ Cardinality(Candidates) > TopMatches
  /\ Len(result.all_matches) = TopMatches

(***************************************************************************)
(* C9: the matched keywords are the tokens that are keys of the index, the *)
(* unmatched keywords are tokens that are not, listed in ascending order   *)
(* and cut to the first 10: at most 10 entries, and no omitted unmatched   *)
(* token sorts before a listed one.                                        *)
(***************************************************************************)
C9_KeywordPartition ==
  Matched =>
    LET M == Fields(result.matched_keywords, <<>>)
        U == Fields(result.unmatched_keywords, <<>>)
    IN /\ Range(M) = Tokens \cap Keys
       /\ Len(M) = Cardinality(Tokens \cap Keys)
       /\ Range(U) \subseteq Tokens \ Keys
       /\ Len(U) = Min(UnmatchedCap, Cardinality(Tokens \ Keys))
       /\ \A i, j \in DOMAIN U : i < j => StrLess(U[i], U[j])
       /\ \A w \in (Tokens \ Keys) \ Range(U) : \A i \in DOMAIN U : StrLess(U[i], w)

C9_Witness ==
  /\ Matched
  /\ Tokens \cap Keys # {}
  /\ Cardinality(Tokens \ Keys) > UnmatchedCap

(***************************************************************************)
(* C10: every key of the built index is a run of lower-case letters longer *)
(* than 3 that is not in STOPWORDS, and every bucket is non-empty.         *)
(***************************************************************************)
C10_IndexKeys ==
  pc # "load" =>
    \A w \in DOMAIN NAICS_CROSSWALK :
      /\ Len(w) > 3
      /\ \A i \in DOMAIN w : IsLower(w[i])
      /\ w \notin STOPWORDS
      /\ NAICS_CROSSWALK[w] # <<>>

C10_Witness ==
  /\ pc = "ready"
  /\ W_rope \in DOMAIN NAICS_CROSSWALK
  /\ \E i \in DOMAIN df :
       /\ ~isna(df[i].title_val)
       /\ \E w \in Range(findall_az(lower(df[i].title_val.s))) : w \in STOPWORDS
       /\ \E w \in Range(findall_az(lower(df[i].title_val.s))) : Len(w) <= 3

(***************************************************************************)
(* C11: in every bucket of the built index each code occurs once, and the  *)
(* entry kept for a code under a keyword comes from the first row of the   *)
(* table with that code whose title contains the keyword.                  *)
(***************************************************************************)
RowUsable(row) ==
  /\ ~isna(row.code_val)
  /\ ~isna(row.title_val)
  /\ strip(CellStr(row.code_val)) # <<>>
  /\ strip(CellStr(row.title_val)) # <<>>

RowHas(row, code, w) ==
  /\ RowUsable(row)
  /\ strip(CellStr(row.code_val)) = code
  /\ w \in Range(findall_az(lower(strip(CellStr(row.title_val)))))

C11_FirstRowKept ==
  pc # "load" =>
    \A w \in Keys :
      /\ \A i, j \in DOMAIN NAICS_CROSSWALK[w] :
           NAICS_CROSSWALK[w][i].code = NAICS_CROSSWALK[w][j].code => i = j
      /\ \A i \in DOMAIN NAICS_CROSSWALK[w] :
           \E k \in DOMAIN df :
             /\ RowHas(df[k], NAICS_CROSSWALK[w][i].code, w)
             /\ \A j \in 1..(k - 1) : ~RowHas(df[j], NAICS_CROSSWALK[w][i].code, w)
             /\ NAICS_CROSSWALK[w][i].title = lower(strip(CellStr(df[k].title_val)))

C11_Witness ==
  /\ pc = "ready"
  /\ \E w \in Keys : \E j, k \in DOMAIN df :
       /\ j < k
       /\ RowHas(df[j], strip(CellStr(df[j].code_val)), w)
       /\ RowHas(df[k], strip(CellStr(df[j].code_val)), w)
       /\ df[j].title_val # df[k].title_val

(***************************************************************************)
(* C12: "Certain Steel Wire Rod From China" is cleaned to "steel wire      *)
(* rod"; against an index built from the single entry 331221 whose title   *)
(* contains steel and wire, the match returns 331221 with the matched      *)
(* keywords steel and wire and rod unmatched.                              *)
(***************************************************************************)
C12_SteelWireRod ==
  (/\ Matched
   /\ pub_title = T_CertainSteelWireRodFromChina
   /\ Len(df) = 1
   /\ RowHas(df[1], IntToStr(331221), W_steel)
   /\ RowHas(df[1], IntToStr(331221), W_wire)) =>
    /\ title = join(<<" ">>, <<W_steel, W_wire, W_rod>>)
    /\ result.naics = Some(IntToStr(331221))
    /\ Fields(result.matched_keywords, <<>>) = <<W_steel, W_wire>>
    /\ Fields(result.unmatched_keywords, <<>>) = <<W_rod>>

C12_Witness ==
  /\ Matched
  /\ pub_title = T_CertainSteelWireRodFromChina
  /\ Len(df) = 1
  /\ RowHas(df[1], IntToStr(331221), W_steel)
  /\ RowHas(df[1], IntToStr(331221), W_wire)
  /\ result.naics # None_

(***************************************************************************)
(* Vocabulary of the claims about chunk_text.                              *)
(***************************************************************************)
Returned == pc_chunk = "returned"

EndsWith(s, suffix) ==
  Len(s) >= Len(suffix) /\ SubSeq(s, Len(s) - Len(suffix) + 1, Len(s)) = suffix

IsInk(c) == c \notin Whitespace

\* the text without its white space
Ink(s) == SelectSeq(s, IsInk)

\* the overlap region at the head of chunk n
OverlapRegion(n) == LStrip(seeds[n])

\* chunk n without the overlap text it was seeded with
Remainder(n) ==
  IF n = 1 THEN chunks[n]
  ELSE SubSeq(chunks[n], Len(OverlapRegion(n)) + 1, Len(chunks[n]))

RECURSIVE Remainders(_)
Remainders(n) == IF n = 0 THEN <<>> ELSE Remainders(n - 1) \o Remainder(n)

\* chunk n holds one sentence only, and that sentence is over the budget
SingleLongSentence(n) ==
  /\ Len(chunk_units[n]) = 1
  /\ count_tokens(chunk_units[n][1]) > max_tokens

(***************************************************************************)
(* C13: with 0 <= overlap < max_tokens every chunk returned by chunk_text  *)
(* has an estimated token count of at most max_tokens, unless the chunk    *)
(* holds one single sentence that by itself exceeds max_tokens.            *)
(***************************************************************************)
C13_WithinBudget ==
  (Returned /\ overlap < max_tokens) =>
    \A n \in DOMAIN chunks :
      count_tokens(chunks[n]) <= max_tokens \/ SingleLongSentence(n)

(***************************************************************************)
(* C14: when chunk_text returns two or more chunks and overlap > 0, each   *)
(* chunk after the first begins with a non-empty piece of text that is a   *)
(* suffix of the chunk before it.                                          *)
(***************************************************************************)
C14_OverlapShared ==
  (Returned /\ overlap > 0 /\ Len(chunks) >= 2) =>
    \A n \in 1..(Len(chunks) - 1) :
      /\ OverlapRegion(n + 1) # <<>>
      /\ StartsWith(chunks[n + 1], OverlapRegion(n + 1))
      /\ EndsWith(chunks[n], OverlapRegion(n + 1))

C14_Witness ==
  /\ Returned
  /\ overlap > 0
  /\ Len(chunks) >= 3
  /\ \E n \in 1..(Len(chunks) - 1) :
       /\ Len(OverlapRegion(n + 1)) < Len(chunks[n])
       /\ Len(OverlapRegion(n + 1)) < Len(chunks[n + 1])

(***************************************************************************)
(* C15: chunk_text loses and reorders nothing: the chunks without the      *)
(* overlap text they were seeded with, put together in order, are the      *)
(* input text up to white space; a blank input gives no chunk.             *)
(***************************************************************************)
C15_RoundTrip ==
  Returned =>
    /\ \A n \in DOMAIN chunks : StartsWith(chunks[n], OverlapRegion(n))
    /\ Ink(Remainders(Len(chunks))) = Ink(text)
    /\ (Ink(text) = <<>> => chunks = <<>>)

C15_Witness ==
  /\ Returned
  /\ Len(chunks) >= 2
  /\ \A n \in 2..Len(chunks) : seeds[n] # <<>>
  /\ Len(split_paragraphs(text)) >= 2
  /\ \E n \in DOMAIN chunks : Len(chunk_units[n]) >= 2

(***************************************************************************)
(* C16: should_skip_chunking is true exactly when the token count of the   *)
(* document is strictly below the threshold; when it is true process_paper *)
(* makes no per-chunk summarization call and passes the whole unmodified   *)
(* document to the single final summary call.                              *)
(***************************************************************************)
C16_SkipSmall ==
  (pc_paper = "returned" /\ paper.use_chunking # None_) =>
    /\ paper.use_chunking[1] = (count_tokens(markdown[1]) >= SkipThreshold)
    /\ ~paper.use_chunking[1] =>
         paper.calls = <<Call("call_ollama_for_summary", markdown[1])>>

C16_Witness ==
  /\ pc_paper = "returned"
  /\ paper.use_chunking = Some(FALSE)
  /\ count_tokens(markdown[1]) = SkipThreshold - 1
  /\ paper.ret

(***************************************************************************)
(* Vocabulary of the claims about the map and reduce steps.                *)
(***************************************************************************)
\* the map loop has run, or is running, in this call of summarize_pdf
MapRan == pc_pdf = "map" \/ \E k \in DOMAIN stages : stages[k] = "map"

ReduceRan == \E k \in DOMAIN stages : stages[k] = "reduce"

\* the calls of ollama.chat made for chunk i, in order
MapCalls(i) ==
  LET ForChunk(c) == c.fn = "run_map_step" /\ c.prompt.arg = pdf_chunks[i]
  IN SelectSeq(gen_calls, ForChunk)

IsReduceCall(c) == c.fn = "run_reduce_step"

ReduceCalls == SelectSeq(gen_calls, IsReduceCall)

\* calls are attempts 0, 1, ... of one step, all failed but perhaps the last
RetriedUntilLast(calls) ==
  /\ Len(calls) >= 1
  /\ \A k \in DOMAIN calls : calls[k].attempt = k - 1
  /\ \A k \in 1..(Len(calls) - 1) : IsFailure(calls[k].outcome)

Last(calls) == calls[Len(calls)]

HasError(rec) == "error" \in DOMAIN rec

(***************************************************************************)
(* C17: run_map_step makes at most 3 calls, stops at the first success and *)
(* returns the content of that call; after 3 failures in a row it returns  *)
(* a record with an error marker as content and an error field; every call *)
(* of run_map_step ends with a record, none with an exception.             *)
(***************************************************************************)
C17_MapRetries ==
  MapRan =>
    /\ pc_pdf # "raised"
    /\ \A c \in Range(gen_calls) :
         c.fn = "run_map_step" =>
           \E i \in DOMAIN mapped_outputs : c.prompt.arg = pdf_chunks[i]
    /\ \A i \in DOMAIN mapped_outputs :
         /\ RetriedUntilLast(MapCalls(i))
         /\ Len(MapCalls(i)) <= 3
         /\ IF IsFailure(Last(MapCalls(i)).outcome)
              THEN /\ Len(MapCalls(i)) = 3
                   /\ HasError(mapped_outputs[i])
                   /\ StartsWith(mapped_outputs[i].content, S_MapError)
              ELSE /\ ~HasError(mapped_outputs[i])
                   /\ mapped_outputs[i].content = strip(Last(MapCalls(i)).outcome.text)

C17_Witness ==
  /\ MapRan
  /\ Len(mapped_outputs) = 2
  /\ HasError(mapped_outputs[1])
  /\ ~HasError(mapped_outputs[2])
  /\ Len(MapCalls(2)) = 3

(***************************************************************************)
(* C18: when summarize_pdf runs the map loop, whichever map steps fail,    *)
(* mapped_outputs ends with one entry per chunk in chunk order, an error   *)
(* marker for a failed chunk and a summary for the others, and             *)
(* run_reduce_step is invoked once, after the entry of the last chunk      *)
(* exists, over all entries in that order joined by the divider.           *)
(***************************************************************************)
RECURSIVE ExpectedSynthesis(_)
ExpectedSynthesis(k) ==
  IF k = 0 THEN <<>>
  ELSE (IF k = 1 THEN <<>> ELSE ExpectedSynthesis(k - 1) \o S_SynthesisDivider)
         \o S_SynthesisOpen \o IntToStr(k) \o S_SynthesisClose
         \o mapped_outputs[k].content

C18_JoinBarrier ==
  (pc_pdf = "done" /\ MapRan) =>
    /\ Len(mapped_outputs) = Len(pdf_chunks)
    /\ \A i \in DOMAIN pdf_chunks :
         /\ MapCalls(i) # <<>>
         /\ HasError(mapped_outputs[i]) = IsFailure(Last(MapCalls(i)).outcome)
    /\ \A j, k \in DOMAIN gen_calls :
         /\ (j < k /\ ~IsReduceCall(gen_calls[j]) /\ ~IsReduceCall(gen_calls[k]))
              => gen_calls[j].prompt.arg.chunk <= gen_calls[k].prompt.arg.chunk
         /\ (IsReduceCall(gen_calls[j]) /\ ~IsReduceCall(gen_calls[k])) => k < j
    /\ Cardinality({ k \in DOMAIN ReduceCalls : ReduceCalls[k].attempt = 0 }) = 1
    /\ \A k \in DOMAIN ReduceCalls :
         ReduceCalls[k].prompt.arg = ExpectedSynthesis(Len(pdf_chunks))

C18_Witness ==
  /\ pc_pdf = "done"
  /\ MapRan
  /\ Len(pdf_chunks) = 2
  /\ HasError(mapped_outputs[1])
  /\ ~HasError(mapped_outputs[2])
  /\ Len(ReduceCalls) >= 1

(***************************************************************************)
(* C19: run_reduce_step makes at most 3 calls and returns the content of   *)
(* the first successful one; after 3 failures in a row it returns an error *)
(* marker string; it never raises.                                         *)
(***************************************************************************)
C19_ReduceRetries ==
  ReduceRan =>
    /\ pc_pdf = "done"
    /\ RetriedUntilLast(ReduceCalls)
    /\ Len(ReduceCalls) <= 3
    /\ IF IsFailure(Last(ReduceCalls).outcome)
         THEN /\ Len(ReduceCalls) = 3
              /\ final_summary =
                   Some(S_ReduceError \o Last(ReduceCalls).outcome.text \o <<"]">>)
         ELSE final_summary = Some(strip(Last(ReduceCalls).outcome.text))

C19_Witness ==
  /\ ReduceRan
  /\ Len(ReduceCalls) = 3
  /\ IsFailure(Last(ReduceCalls).outcome)
  /\ final_summary # None_

(***************************************************************************)
(* C20: when a generation call fails with a non-transient error, the step  *)
(* makes no further attempt and the error is surfaced to the caller of the *)
(* pipeline at once, instead of being retried and replaced by an error     *)
(* marker.                                                                 *)
(***************************************************************************)
C20_FatalSurfaced ==
  \A k \in DOMAIN gen_calls :
    gen_calls[k].outcome.kind = "fatal" =>
      /\ k = Len(gen_calls)
      /\ pc_pdf = "raised"

(***************************************************************************)
(* C28: get_overlap_text returns a suffix of its text of at most           *)
(* 4 * overlap_tokens characters; with overlap_tokens = 0 it returns the   *)
(* empty string, so that chunk_text with overlap = 0 seeds a new chunk     *)
(* with no text of the chunk before it.                                    *)
(***************************************************************************)
C28_OverlapBounded ==
  Returned =>
    \A n \in 2..Len(chunks) :
      /\ EndsWith(chunks[n - 1], OverlapRegion(n))
      /\ Len(seeds[n]) <= CharsPerToken * overlap
      /\ overlap = 0 => seeds[n] = <<>>

\* the run was given the PDF file; its stages are those run so far
Executed(stage) == \E k \in DOMAIN stages : stages[k] = stage

\* the run is past step 4 and took the map outputs from the cache
MapLoaded == pc_pdf \in {"reduce", "done"} /\ ~Executed("map")

(***************************************************************************)
(* C21: the cache files of a document are keyed by its identity, so that   *)
(* a run without force never loads what was cached for another document:   *)
(* the text, the cleaned text and the chunks a run works on are those of   *)
(* the file it was given, also when a file of the same name with other     *)
(* content, or another file of the same stem, was processed before.        *)
(***************************************************************************)
C21_OwnDocument ==
  (~force /\ pc_pdf \notin {"idle", "raised"}) =>
    /\ extracted_text # None_ => extracted_text[1].text_of = pdf
    /\ cleaned_text # None_ => cleaned_text[1].cleaned.text_of = pdf
    /\ \A i \in DOMAIN pdf_chunks : pdf_chunks[i].of = pdf.id

(***************************************************************************)
(* C22: with force set, summarize_pdf uses no cached value: extraction,    *)
(* cleaning, chunking and the map step of every chunk are executed, and    *)
(* each of the four cache files is overwritten with the fresh output.      *)
(***************************************************************************)
FreshText == extract_text_from_pdf(pdf)

FreshCleaned == clean_extracted_text(FreshText)

FreshChunks == pdf_chunk_text(FreshCleaned)

AllStagesRun ==
  /\ Executed("extract") /\ Executed("clean") /\ Executed("chunk") /\ Executed("map")
  /\ extracted_text = Some(FreshText)
  /\ cleaned_text = Some(FreshCleaned)
  /\ pdf_chunks = FreshChunks
  /\ Len(mapped_outputs) = Len(pdf_chunks)
  /\ \A i \in DOMAIN pdf_chunks : MapCalls(i) # <<>>

CachesFresh ==
  /\ cache[get_cache_path(pdf, "text")] = Some(FreshText)
  /\ cache[get_cache_path(pdf, "cleaned")] = Some(FreshCleaned)
  /\ cache[get_cache_path(pdf, "chunks")] = Some(FreshChunks)
  /\ cache[get_cache_path(pdf, "map")] = Some(mapped_outputs)

ChunksLoaded ==
  pc_pdf \in {"mapcache", "map", "reduce", "done"} /\ ~Executed("chunk")

C23_NoEarlierStage ==
  ~force =>
    /\ MapLoaded =>
         ~Executed("extract") /\ ~Executed("clean") /\ ~Executed("chunk")
    /\ ChunksLoaded => ~Executed("extract") /\ ~Executed("clean")

(***************************************************************************)
(* C30: in a run without force that finds the map cache, no generation     *)
(* call of the map step is made and run_reduce_step receives the cached    *)
(* outputs in their stored order, records with an error marker included;   *)
(* the map loop runs over a cached document only when force is set.        *)
(***************************************************************************)
C30_CachedMapReused ==
  /\ (~force /\ MapLoaded) =>
       /\ cache[get_cache_path(pdf, "map")] = Some(mapped_outputs)
       /\ \A c \in Range(gen_calls) : c.fn # "run_map_step"
       /\ \A k \in DOMAIN ReduceCalls :
            ReduceCalls[k].prompt.arg = ExpectedSynthesis(Len(mapped_outputs))
       /\ pc_pdf = "done" => ReduceCalls # <<>>
  /\ (pc_pdf = "map" /\ cache[get_cache_path(pdf, "map")] # None_) => force

C30_Witness ==
  /\ ~force
  /\ MapLoaded
  /\ pc_pdf = "done"
  /\ Len(mapped_outputs) = MaxChunks
  /\ HasError(mapped_outputs[1])
  /\ ~HasError(mapped_outputs[2])

(***************************************************************************)
(* C25: match_naics leaves NAICS_CROSSWALK as build_crosswalk made it, for *)
(* every title, also one with tokens that are not keys (looking a word up  *)
(* never makes a bucket); hence whatever calls came before, the result for *)
(* a title is one that the index as built gives for it.                    *)
(***************************************************************************)
C25_IndexReadOnly ==
  pc # "load" =>
    /\ NAICS_CROSSWALK = build_crosswalk(df)
    /\ \A w \in Keys : NAICS_CROSSWALK[w] # <<>>
    /\ Matched =>
         /\ Fields(result.matched_keywords, <<>>) = Ascending(Tokens \cap Keys)
         /\ \E order \in IterationOrders(build_crosswalk(df), Tokens) :
              result = match_naics(build_crosswalk(df), title, order).result

C25_Witness ==
  /\ Matched
  /\ Tokens \ Keys # {}
  /\ Tokens \cap Keys # {}
  /\ result.naics # None_

(***************************************************************************)
(* C26: for every candidate code the score, and keyword_count which always *)
(* equals it, is the number of distinct tokens of the title whose bucket   *)
(* contains the code; a word repeated in the title, or a code listed in    *)
(* several rows for one keyword, does not raise it; a code is a candidate  *)
(* iff that number is at least 1.                                          *)
(***************************************************************************)
C26_ScoreCountsKeywords ==
  Matched =>
    /\ \A i \in Ranked :
         /\ sorted_matches[i].score = ScoreOf(sorted_matches[i].code)
         /\ sorted_matches[i].keyword_count = sorted_matches[i].score
    /\ \A c \in UNION { CodesOf(w) : w \in Keys } :
         (\E i \in Ranked : sorted_matches[i].code = c) <=> ScoreOf(c) >= 1

C26_Witness ==
  /\ Matched
  /\ Len(findall_az(title)) > Cardinality(Tokens)
  /\ Len(df) = 2
  /\ df[1] = df[2]
  /\ \E i \in Ranked : sorted_matches[i].score = 1

(***************************************************************************)
(* C24: in the main loop of industry_match_chat.py, whatever the call of   *)
(* the model does for a case (it fails, it answers text that is no JSON,   *)
(* JSON that is no object, an object that fails the schema, an object that *)
(* repeats case_title), one record is appended for the case, with error    *)
(* set when the answer is unusable, and the loop goes on; after the loop   *)
(* there are as many records as cases.                                     *)
(***************************************************************************)
Unusable(response) ==
  \/ response.kind = "raise"
  \/ response.content.json # "object"
  \/ \E k \in IndustryMatchFields :
       k \notin DOMAIN response.content.obj \/ response.content.obj[k].t # "str"

C24_OneRecordPerCase ==
  pc_chat # "idle" =>
    /\ pc_chat # "raised"
    /\ Len(results) = Len(responses)
    /\ \A i \in DOMAIN results :
         /\ results[i].investigation_id = Some(CASES_DF[i].investigation_id)
         /\ Unusable(responses[i]) <=> results[i].error # None_
    /\ pc_chat = "saved" => Len(results) = Len(CASES_DF)

(***************************************************************************)
(* C27: started with a page limit N >= 1 on a site of more than N pages,   *)
(* the scrape loop fetches the first N pages, 0 to N - 1, and no other.    *)
(***************************************************************************)
LimitedRun ==
  /\ pc_scrape = "done"
  /\ MAX_PAGES # None_
  /\ MAX_PAGES[1] >= 1
  /\ site_pages > MAX_PAGES[1]
  /\ detected_pages = site_pages - 1

C27_FirstNPages ==
  LimitedRun => fetched = [i \in 1..MAX_PAGES[1] |-> i - 1]

(***************************************************************************)
(* C29: whatever the server answers to the calls of fetch_page (the page,  *)
(* a challenge page, status 403, another error status, a failure of the    *)
(* connection), a cached page file holds the text of a response with       *)
(* status 200 to a request for that page, without the challenge marker; a  *)
(* call that fails leaves the cache as it was; a call for a page whose     *)
(* cache file is not empty makes no request; no call makes more than 5.    *)
(***************************************************************************)
InFetch == pc_scrape \in {"fetching", "fetched"} \/ fetch_outcome = "raised"

C29_CacheHoldsPages ==
  pc_scrape # "idle" =>
    /\ \A p \in PageNums :
         page_cache[p] # None_ => page_cache[p][1] \in {EmptyHtml, PageHtml(p)}
    /\ http_requests <= fetch_max_retries
    /\ InFetch =>
         /\ fetch_outcome \in {"failed", "raised"} => page_cache = cache_at_call
         /\ (cache_at_call[page] # None_ /\ cache_at_call[page][1] # EmptyHtml) =>
              /\ http_requests = 0
              /\ fetch_outcome = "cache"
              /\ html = cache_at_call[page]
              /\ page_cache = cache_at_call
         /\ \A p \in PageNums \ {page} : page_cache[p] = cache_at_call[p]

C29_Witness ==
  /\ pc_scrape = "fetched"
  /\ fetch_outcome = "failed"
  /\ http_requests = fetch_max_retries
  /\ \E p \in PageNums : page_cache[p] = Some(PageHtml(p))
  /\ \E p \in PageNums : page_cache[p] = Some(EmptyHtml)

=============================================================================
